---- MODULE Spec2Model ----
(***************************************************************************)
(* Model of ufc_scraper_FIXED.py: the record reconciliation and            *)
(* temporal-inference engine (normalisation, merge keys, merge_rows, the   *)
(* key_to_row store of main, and the enrichment passes).                   *)
(*                                                                         *)
(* Text.  A Python str is modelled as a sequence of lexemes.  A lexeme is  *)
(* a single character ("a", " ", "|"), or, in date text, a digit group or  *)
(* a month word, which strptime's directives consume whole.  Python's None *)
(* is the value None below.                                                *)
(***************************************************************************)
EXTENDS Integers, Sequences, FiniteSets, TLC

VARIABLES
    pc,               \* position of the running program / harness
    m_old, m_new,     \* merge_rows: the two arguments of the last call
    m_out,            \* merge_rows: the record returned by the last call
    k_in, k_out,      \* legacy_key: last arguments <<d, f1, f2>> and the two keys
    csv_rows,         \* load_existing_csv: rows read from the file, in file order
    key_to_row,       \* the store: sequence of [key, row] in dict insertion order
    prev_store,       \* history: key_to_row before the last store step
    max_date,         \* load_existing_csv: latest parsed date of the file
    cfg,              \* UPDATE_EXISTING, BACKFILL_ALL
    event,            \* main: the event being processed (date text and parsed date)
    last_obs,         \* main/load: the row that the last store step handled
    counts,           \* main: total_new, total_updated
    final_rows,       \* main: list(key_to_row.values()), enriched in place
    rows_in,          \* history: final_rows as the enrichment received them
    kb,               \* main: the knowledge base that build_fighter_kb returned
    today,            \* date.today() read by apply_active_flags
    sel_in, sel_out,  \* the selection functions: arguments and result of the last call
    f_args,           \* fetch_with_retries: tries and delay
    attempt,          \* fetch_with_retries: the loop variable
    f_log,            \* history: the GETs attempted and the sleeps, in order
    f_result          \* fetch_with_retries: what the call returned

mergeVars == <<m_old, m_new, m_out>>

keyVars == <<k_in, k_out>>

storeVars == <<csv_rows, key_to_row, prev_store, max_date, cfg, event, last_obs, counts>>

enrichVars == <<final_rows, rows_in, kb, today>>

selectVars == <<sel_in, sel_out>>

fetchVars == <<f_args, attempt, f_log, f_result>>

\* the variables of the functions that are applied on their own
pureVars == <<keyVars, selectVars, fetchVars>>

vars == <<pc, mergeVars, keyVars, storeVars, enrichVars, selectVars, fetchVars>>

\* the value of the variables that the running part of the program does not use
Idle == <<>>

IdleMerge == m_old = Idle /\ m_new = Idle /\ m_out = Idle

IdleKey == k_in = Idle /\ k_out = Idle

IdleStore ==
    /\ csv_rows = Idle /\ key_to_row = Idle /\ prev_store = Idle /\ max_date = Idle
    /\ cfg = Idle /\ event = Idle /\ last_obs = Idle /\ counts = Idle

IdleEnrich == final_rows = Idle /\ rows_in = Idle /\ kb = Idle /\ today = Idle

IdleSelect == sel_in = Idle /\ sel_out = Idle

IdleFetch == f_args = Idle /\ attempt = Idle /\ f_log = Idle /\ f_result = Idle

----------------------------------------------------------------------------
(* Characters and strings *)

None == <<"None">>

\* the characters used, in code point order (tab, space, ..., letters, "|")
ASCII == <<"\t", " ", "'", ",", "-", "/",
           "0", "1", "2", "3", "4", "5", "6", "7", "8", "9",
           "A", "B", "C", "D", "E", "F", "G", "H", "I", "J", "K", "L", "M",
           "N", "O", "P", "Q", "R", "S", "T", "U", "V", "W", "X", "Y", "Z",
           "a", "b", "c", "d", "e", "f", "g", "h", "i", "j", "k", "l", "m",
           "n", "o", "p", "q", "r", "s", "t", "u", "v", "w", "x", "y", "z",
           "|">>

UpperCase == <<"A", "B", "C", "D", "E", "F", "G", "H", "I", "J", "K", "L", "M",
               "N", "O", "P", "Q", "R", "S", "T", "U", "V", "W", "X", "Y", "Z">>

LowerCase == <<"a", "b", "c", "d", "e", "f", "g", "h", "i", "j", "k", "l", "m",
               "n", "o", "p", "q", "r", "s", "t", "u", "v", "w", "x", "y", "z">>

\* month words as they occur in date text, and their lower-case forms
MonthWords == <<"August", "Aug", "February", "Feb", "AUGUST">>

MonthWordsLower == <<"august", "aug", "february", "feb", "august">>

IndexOf(seq, x) ==
    IF \E i \in 1..Len(seq) : seq[i] = x
    THEN CHOOSE i \in 1..Len(seq) : seq[i] = x
    ELSE 0

\* the function that takes keys[i] to vals[i]; the keys are without repetitions
TableOf(keys, vals) ==
    [x \in {keys[i] : i \in 1..Len(keys)} |->
        vals[CHOOSE i \in 1..Len(keys) : keys[i] = x]]

\* the positions of the items of seq
PositionIn(seq) == TableOf(seq, [i \in 1..Len(seq) |-> i])

AsciiPosition == PositionIn(ASCII)

Ord(c) == IF c \in DOMAIN AsciiPosition THEN AsciiPosition[c] ELSE 0

IsSpace(c) == c \in {" ", "\t"}

\* str.lower() / str.casefold() of one lexeme
LowerTable == TableOf(UpperCase \o MonthWords, LowerCase \o MonthWordsLower)

LowerChar(c) == IF c \in DOMAIN LowerTable THEN LowerTable[c] ELSE c

RECURSIVE Lower(_)
Lower(s) == IF s = <<>> THEN <<>> ELSE <<LowerChar(Head(s))>> \o Lower(Tail(s))

RECURSIVE LStrip(_)
LStrip(s) == IF s # <<>> /\ IsSpace(Head(s)) THEN LStrip(Tail(s)) ELSE s

RECURSIVE RStrip(_)
RStrip(s) ==
    IF s # <<>> /\ IsSpace(s[Len(s)]) THEN RStrip(SubSeq(s, 1, Len(s) - 1)) ELSE s

\* str.strip()
Strip(s) == RStrip(LStrip(s))

\* re.sub(r"\s+", " ", s)
RECURSIVE CollapseSpaces(_)
CollapseSpaces(s) ==
    IF s = <<>> THEN <<>>
    ELSE IF IsSpace(Head(s)) THEN <<" ">> \o CollapseSpaces(LStrip(s))
    ELSE <<Head(s)>> \o CollapseSpaces(Tail(s))

\* Python's str <= str: lexicographic by code point
RECURSIVE StrLeq(_, _)
StrLeq(a, b) ==
    IF a = <<>> THEN TRUE
    ELSE IF b = <<>> THEN FALSE
    ELSE IF Head(a) = Head(b) THEN StrLeq(Tail(a), Tail(b))
    ELSE Ord(Head(a)) < Ord(Head(b))

\* str(v)
Str(v) == IF v = None THEN <<"N", "o", "n", "e">> ELSE v

\* str.startswith
StartsWith(s, p) == Len(s) >= Len(p) /\ SubSeq(s, 1, Len(p)) = p

----------------------------------------------------------------------------
(* Identity and normalisation *)

norm_name(name) ==
    IF name = None \/ name = <<>> THEN <<>>
    ELSE Lower(Strip(CollapseSpaces(name)))

----------------------------------------------------------------------------
(* Dates.  A date object is [y, m, d]; NoDate is parse_date_to_obj's None. *)

NoDate == [y |-> 0, m |-> 0, d |-> 0]

\* date.min
DateMin == [y |-> 1, m |-> 1, d |-> 1]

\* the four-digit years that occur in the date text of the model: the year of
\* date.min and 2019..2026
YearTexts ==
    <<"0001", "2019", "2020", "2021", "2022", "2023", "2024", "2025", "2026">>

YearNumbers == <<1, 2019, 2020, 2021, 2022, 2023, 2024, 2025, 2026>>

MonthFull == <<"january", "february", "march", "april", "may", "june", "july",
               "august", "september", "october", "november", "december">>

MonthAbbr == <<"jan", "feb", "mar", "apr", "may", "jun", "jul", "aug", "sep",
               "oct", "nov", "dec">>

IsLeap(y) == y % 4 = 0 /\ (y % 100 # 0 \/ y % 400 = 0)

DaysInMonth(y, m) ==
    IF m = 2 THEN (IF IsLeap(y) THEN 29 ELSE 28)
    ELSE IF m \in {4, 6, 9, 11} THEN 30 ELSE 31

RECURSIVE DaysBeforeMonth(_, _)
DaysBeforeMonth(y, m) ==
    IF m <= 1 THEN 0 ELSE DaysBeforeMonth(y, m - 1) + DaysInMonth(y, m - 1)

DaysBeforeYear(y) ==
    (y - 1) * 365 + ((y - 1) \div 4) - ((y - 1) \div 100) + ((y - 1) \div 400)

\* date.toordinal(); differences of ordinals are timedelta.days
Ordinal(dt) == DaysBeforeYear(dt.y) + DaysBeforeMonth(dt.y, dt.m) + dt.d

\* date < date, date <= date
DateLt(a, b) == Ordinal(a) < Ordinal(b)

DateLeq(a, b) == Ordinal(a) <= Ordinal(b)

\* digit groups without and with a leading zero: "8", "08"
Digits1 == <<"1", "2", "3", "4", "5", "6", "7", "8", "9", "10", "11", "12",
             "13", "14", "15", "16", "17", "18", "19", "20", "21", "22",
             "23", "24", "25", "26", "27", "28", "29", "30", "31">>

Digits2 == <<"01", "02", "03", "04", "05", "06", "07", "08", "09", "10",
             "11", "12", "13", "14", "15", "16", "17", "18", "19", "20",
             "21", "22", "23", "24", "25", "26", "27", "28", "29", "30",
             "31">>

\* the number that a group of one or two digits denotes, 0 if it is none
NumberTable == TableOf(Digits2 \o Digits1, [i \in 1..62 |-> ((i - 1) % 31) + 1])

NumberOf(tok) == IF tok \in DOMAIN NumberTable THEN NumberTable[tok] ELSE 0

YearTable == TableOf(YearTexts, YearNumbers)

YearOf(tok) == IF tok \in DOMAIN YearTable THEN YearTable[tok] ELSE 0

\* the year as "%04d"
YearTextTable == TableOf(YearNumbers, YearTexts)

\* "may" is both a full and an abbreviated month name, at the same position
MonthFullTable == PositionIn(MonthFull)

MonthAbbrTable == PositionIn(MonthAbbr)

MonthOf(table, tok) ==
    LET w == LowerChar(tok)
    IN  IF w \in DOMAIN table THEN table[w] ELSE 0

\* the value a strptime directive reads from one lexeme, 0 when it does not match
DirectiveValue(dir, tok) ==
    IF dir = "%Y" THEN YearOf(tok)
    ELSE IF dir \in {"%m", "%d"}
    THEN LET n == NumberOf(tok)
         IN  IF dir = "%m" /\ n > 12 THEN 0 ELSE n
    ELSE MonthOf(IF dir = "%B" THEN MonthFullTable ELSE MonthAbbrTable, tok)

IsDirective(f) == f \in {"%Y", "%m", "%d", "%B", "%b"}

DATE_FORMATS == <<
    <<"%B", " ", "%d", ",", " ", "%Y">>,
    <<"%b", " ", "%d", ",", " ", "%Y">>,
    <<"%Y", "-", "%m", "-", "%d">>,
    <<"%m", "/", "%d", "/", "%Y">>,
    <<"%d", " ", "%B", " ", "%Y">>,
    <<"%d", " ", "%b", " ", "%Y">>,
    <<"%b", "-", "%d", "-", "%Y">>,
    <<"%B", "-", "%d", "-", "%Y">> >>

\* str.replace(",", "")
RemoveCommas(s) == SelectSeq(s, LAMBDA c : c # ",")

\* a directive's value v put before the values of the rest of the match;
\* <<0>> when the directive or the rest did not match
Prepend(v, rest) == IF v = 0 \/ rest = <<0>> THEN <<0>> ELSE <<v>> \o rest

\* datetime.strptime's matching of text s against format fmt: a space in the
\* format matches a run of white space, a directive one lexeme, anything else itself.
\* The result is the sequence of values the directives read (each > 0), or <<0>>.
RECURSIVE StrpMatch(_, _)
StrpMatch(s, fmt) ==
    IF fmt = <<>> THEN (IF s = <<>> THEN <<>> ELSE <<0>>)
    ELSE IF s = <<>> THEN <<0>>
    ELSE IF Head(fmt) = " "
         THEN (IF IsSpace(Head(s)) THEN StrpMatch(LStrip(s), Tail(fmt)) ELSE <<0>>)
    ELSE IF IsDirective(Head(fmt))
         THEN LET v    == DirectiveValue(Head(fmt), Head(s))
                  rest == StrpMatch(Tail(s), Tail(fmt))
              IN  Prepend(v, rest)
    ELSE IF Head(s) = Head(fmt) THEN StrpMatch(Tail(s), Tail(fmt))
    ELSE <<0>>

\* position of a directive's value: the values are read in format order
FieldOf(fmt, vals, dirs) ==
    vals[CHOOSE j \in 1..Len(SelectSeq(fmt, IsDirective)) :
            SelectSeq(fmt, IsDirective)[j] \in dirs]

\* date(y, m, d); NoDate where Python raises ValueError
DateFrom(y, m, d) ==
    IF d <= DaysInMonth(y, m) THEN [y |-> y, m |-> m, d |-> d] ELSE NoDate

\* the date that the values read with format fmt make
DateOfValues(fmt, vals) ==
    IF vals = <<0>> THEN NoDate
    ELSE LET y == FieldOf(fmt, vals, {"%Y"})
             m == FieldOf(fmt, vals, {"%m", "%B", "%b"})
             d == FieldOf(fmt, vals, {"%d"})
         IN  DateFrom(y, m, d)

\* datetime.strptime(s, fmt).date(); NoDate where Python raises ValueError
Strptime(s, fmt) ==
    LET vals == StrpMatch(s, fmt)
    IN  DateOfValues(fmt, vals)

\* "return r" when r is a date, otherwise go on with the attempts that follow
ReturnOrGoOn(r, following) == IF r # NoDate THEN r ELSE following

\* the first format of DATE_FORMATS, from index i on, that parses s; with
\* commas = FALSE the commas are taken out of the format first
RECURSIVE TryFormats(_, _, _)
TryFormats(s, i, commas) ==
    IF i > Len(DATE_FORMATS) THEN NoDate
    ELSE LET fmt == IF commas THEN DATE_FORMATS[i] ELSE RemoveCommas(DATE_FORMATS[i])
             r   == Strptime(s, fmt)
         IN  ReturnOrGoOn(r, TryFormats(s, i + 1, commas))

\* the two loops over DATE_FORMATS: pass 1 with the text as it is, pass 2 with
\* the commas taken out of text and formats
RECURSIVE TryPasses(_, _)
TryPasses(s, pass) ==
    IF pass > 2 THEN NoDate
    ELSE LET r == TryFormats(IF pass = 1 THEN s ELSE RemoveCommas(s), 1, pass = 1)
         IN  ReturnOrGoOn(r, TryPasses(s, pass + 1))

parse_date_to_obj(str) ==
    IF str = None \/ str = <<>> THEN NoDate
    ELSE TryPasses(CollapseSpaces(Strip(str)), 1)

\* date.isoformat(), or "" for None
to_iso(dt) ==
    IF dt = NoDate THEN <<>>
    ELSE <<YearTextTable[dt.y], "-", Digits2[dt.m], "-", Digits2[dt.d]>>

----------------------------------------------------------------------------
(* Merge key *)

\* f"{iso}|{a}|{b}"
KeyText(iso, a, b) == iso \o <<"|">> \o a \o <<"|">> \o b

\* the branch on a <= b
SortedKeyText(iso, a, b) == IF StrLeq(a, b) THEN KeyText(iso, a, b) ELSE KeyText(iso, b, a)

\* a plausible slip: the two names are not put in sorted order
legacy_key_unsorted(date_str, f1, f2) ==
    LET iso == to_iso(parse_date_to_obj(date_str))
        a   == norm_name(f1)
        b   == norm_name(f2)
    IN  KeyText(iso, a, b)

\* a plausible slip: the key is built from the date text as written, not from
\* its ISO form
legacy_key_raw_date(date_str, f1, f2) ==
    LET iso == Strip(Str(date_str))
        a   == norm_name(f1)
        b   == norm_name(f2)
    IN  SortedKeyText(iso, a, b)

\* the ISO form of the parsed date d, or the date text where it did not parse
IsoOrText(d, date_str) == IF d = NoDate THEN Strip(Str(date_str)) ELSE to_iso(d)

\* a plausible slip: a date that does not parse stays in the key as it is written
legacy_key_keep_unparsed(date_str, f1, f2) ==
    LET iso == IsoOrText(parse_date_to_obj(date_str), date_str)
        a   == norm_name(f1)
        b   == norm_name(f2)
    IN  SortedKeyText(iso, a, b)

legacy_key(date_str, f1, f2) ==
    LET iso == to_iso(parse_date_to_obj(date_str))
        a   == norm_name(f1)
        b   == norm_name(f2)
    IN  SortedKeyText(iso, a, b)

----------------------------------------------------------------------------
(* Records.  A row (a Python dict) is a function from field names to values. *)

EmptyRow == <<>>

Unknown == <<"u", "n", "k", "n", "o", "w", "n">>

\* dict.get(k, default)
Get(row, k, default) == IF k \in DOMAIN row THEN row[k] ELSE default

\* a plausible slip: the "v is None" test is missing, so None is stored as text
merge_rows_none_as_text(old_row, new_row) ==
    LET merged == old_row
        sv(k)  == Strip(Str(new_row[k]))
        blank(k) == sv(k) = <<>> \/ Lower(sv(k)) = Unknown
        keep(k)  == blank(k) /\ k \in DOMAIN merged /\ Strip(Str(merged[k])) # <<>>
    IN  [k \in DOMAIN merged \cup DOMAIN new_row |->
            IF k \in DOMAIN new_row /\ ~keep(k) THEN sv(k) ELSE merged[k]]

\* a plausible slip: the roles of the two rows are exchanged
merge_rows_swapped(old_row, new_row) ==
    LET merged == new_row
        set    == {k \in DOMAIN old_row : old_row[k] # None}
        sv(k)  == Strip(Str(old_row[k]))
        blank(k) == sv(k) = <<>> \/ Lower(sv(k)) = Unknown
        keep(k)  == blank(k) /\ k \in DOMAIN merged /\ Strip(Str(merged[k])) # <<>>
    IN  [k \in DOMAIN merged \cup set |->
            IF k \in set /\ ~keep(k) THEN sv(k) ELSE merged[k]]

\* a plausible slip: the incoming value always replaces the stored one
merge_rows_overwrite(old_row, new_row) ==
    LET merged == old_row
        set    == {k \in DOMAIN new_row : new_row[k] # None}
    IN  [k \in DOMAIN merged \cup set |->
            IF k \in set THEN Strip(Str(new_row[k])) ELSE merged[k]]

merge_rows(old_row, new_row) ==
    LET merged == old_row    \* dict(old_row); an empty old_row gives {} either way
        \* the keys the loop reaches past "if v is None: continue"
        set    == {k \in DOMAIN new_row : new_row[k] # None}
        sv(k)  == Strip(Str(new_row[k]))
        blank(k) == sv(k) = <<>> \/ Lower(sv(k)) = Unknown
        keep(k)  == blank(k) /\ k \in DOMAIN merged /\ Strip(Str(merged[k])) # <<>>
    IN  [k \in DOMAIN merged \cup set |->
            IF k \in set /\ ~keep(k) THEN sv(k) ELSE merged[k]]

----------------------------------------------------------------------------
(* merge_rows applied to bounded inputs: a stored record, merged again and   *)
(* again with observations, with itself, or a second time with the same one. *)

MergeFields == {"result", "fighter_1_gym"}

\* the values of 'result': null, empty, blank, padded, 'unknown' in two spellings
ResultValues ==
    { None, <<>>, <<" ">>, <<"w", "i", "n">>, <<" ", "w", "i", "n", " ">>,
      <<"u", "n", "k", "n", "o", "w", "n">>, <<" ", "U", "n", "k", "n", "o", "w", "n">>,
      <<"T", "K">> }

GymValues == { <<>>, <<"T", "K">>, <<" ", "U", "n", "k", "n", "o", "w", "n">> }

MergeValues(f) == IF f = "result" THEN ResultValues ELSE GymValues

MergeRecords ==
    UNION { {r \in [fs -> ResultValues] : \A f \in fs : r[f] \in MergeValues(f)} :
            fs \in SUBSET MergeFields }

InitMerge ==
    /\ pc = "stored"
    /\ m_out \in MergeRecords
    /\ m_old = Idle
    /\ m_new = Idle
    /\ IdleKey /\ IdleStore /\ IdleEnrich /\ IdleSelect /\ IdleFetch

\* merged = merge_rows(stored, observed)
MergeObserved ==
    /\ pc \in {"stored", "merged", "merged_again", "merged_self"}
    /\ \E b \in MergeRecords :
          /\ m_old' = m_out
          /\ m_new' = b
          /\ m_out' = merge_rows(m_out, b)
    /\ pc' = "merged"
    /\ UNCHANGED <<pureVars, storeVars, enrichVars>>

\* the same observation merged a second time
MergeAgain ==
    /\ pc = "merged"
    /\ m_old' = m_out
    /\ m_new' = m_new
    /\ m_out' = merge_rows(m_out, m_new)
    /\ pc' = "merged_again"
    /\ UNCHANGED <<pureVars, storeVars, enrichVars>>

\* a record merged with itself
MergeSelf ==
    /\ pc \in {"stored", "merged", "merged_again", "merged_self"}
    /\ m_old' = m_out
    /\ m_new' = m_out
    /\ m_out' = merge_rows(m_out, m_out)
    /\ pc' = "merged_self"
    /\ UNCHANGED <<pureVars, storeVars, enrichVars>>

NextMerge == MergeObserved \/ MergeAgain \/ MergeSelf

SpecMerge == InitMerge /\ [][NextMerge]_vars

\* the claims' notion of a blank value: null, empty after trimming, or 'unknown'
IsBlankValue(v) ==
    v = None \/ Strip(v) = <<>> \/ Lower(Strip(v)) = Unknown

IsTrimmed(v) == v = None \/ Strip(v) = v

C2_MergeTwiceIsMergeOnce ==
    pc = "merged_again" => m_out = m_old

C2_Witness ==
    /\ pc = "merged_again"
    /\ m_out = m_old
    /\ "result" \in DOMAIN m_new /\ m_new["result"] = <<" ", "w", "i", "n", " ">>
    /\ "fighter_1_gym" \in DOMAIN m_new /\ IsBlankValue(m_new["fighter_1_gym"])
    /\ "fighter_1_gym" \in DOMAIN m_out /\ m_out["fighter_1_gym"] = <<"T", "K">>

(* C3: monotonic non-destruction.  In every merge, a field f for which the   *)
(* stored record has a non-blank value and the incoming one a null, empty or *)
(* 'unknown' value keeps the stored value; and in every merge of a sequence  *)
(* of merges (m_old is the record the step before returned) a field holding *)
(* a non-blank value is still there, non-blank, afterwards.                  *)
C3_MonotonicNonDestruction ==
    pc \in {"merged", "merged_again", "merged_self"} =>
        /\ \A f \in DOMAIN m_old \cap DOMAIN m_new :
              (~IsBlankValue(m_old[f]) /\ IsBlankValue(m_new[f]))
                  => (f \in DOMAIN m_out /\ m_out[f] = m_old[f])
        /\ \A f \in DOMAIN m_old :
              ~IsBlankValue(m_old[f])
                  => (f \in DOMAIN m_out /\ ~IsBlankValue(m_out[f]))

C3_Witness ==
    /\ pc = "merged"
    /\ "result" \in DOMAIN m_old /\ m_old["result"] = <<"w", "i", "n">>
    /\ "result" \in DOMAIN m_new
    /\ m_new["result"] = <<" ", "U", "n", "k", "n", "o", "w", "n">>
    /\ m_out["result"] = <<"w", "i", "n">>

----------------------------------------------------------------------------
(* legacy_key applied to bounded inputs, with the names in both orders. *)

NameAl == <<"A", "l">>

NameBo == <<"B", "o">>

\* date text in the accepted formats, padded, and not parseable
DateTexts ==
    { <<"August", " ", "23", ",", " ", "2025">>,
      <<"2025", "-", "08", "-", "23">>,
      <<" ", "Aug", " ", "\t", "23", " ", "2025">>,
      <<"08", "/", "24", "/", "2025">>,
      <<"T", "B", "D">>,
      <<>> }

\* names that differ in case and white space only, that differ, and the empty name
KeyNames ==
    { NameAl, <<" ", "a", "L">>, <<"A", "l", " ", "\t", "Z">>, <<"a", "l", " ", "z">>,
      NameBo, <<"b", "O", " ">>, <<>> }

InitKey ==
    /\ pc = "key_args"
    /\ k_in \in DateTexts \X KeyNames \X KeyNames
    /\ k_out = Idle
    /\ IdleMerge /\ IdleStore /\ IdleEnrich /\ IdleSelect /\ IdleFetch

\* k = legacy_key(d, x, y) and, for the same fight seen with the sides exchanged,
\* legacy_key(d, y, x)
ComputeKeys ==
    /\ pc = "key_args"
    /\ k_out' = <<legacy_key(k_in[1], k_in[2], k_in[3]),
                  legacy_key(k_in[1], k_in[3], k_in[2])>>
    /\ pc' = "keyed"
    /\ UNCHANGED <<k_in, mergeVars, storeVars, enrichVars, selectVars, fetchVars>>

NextKey == ComputeKeys

SpecKey == InitKey /\ [][NextKey]_vars

(* C4: the merge key is order-insensitive: for every date text d and names x, *)
(* y, legacy_key(d, x, y) = legacy_key(d, y, x), also when the names differ   *)
(* only in case or white space, or one of them is empty.                      *)
C4_KeyOrderInsensitive ==
    pc = "keyed" => k_out[1] = k_out[2]

C4_Witness ==
    /\ pc = "keyed"
    /\ k_in[2] = NameBo
    /\ k_in[3] = <<" ", "a", "L">>
    /\ k_out[1] = k_out[2]
    /\ k_out[1] = <<"2025", "-", "08", "-", "23", "|", "a", "l", "|", "b", "o">>

----------------------------------------------------------------------------
(* Enrichment: tallies before each fight, and the active flags. *)

\* str(n) of a natural number
RECURSIVE StrOfNat(_)
StrOfNat(n) ==
    IF n < 10 THEN <<ToString(n)>> ELSE StrOfNat(n \div 10) \o <<ToString(n % 10)>>

\* parse_date_to_obj(r.get('event_date', '')) of every row, from row i on
RECURSIVE RowDatesFrom(_, _)
RowDatesFrom(rows, i) ==
    IF i > Len(rows) THEN <<>>
    ELSE <<parse_date_to_obj(Get(rows[i], "event_date", <<>>))>> \o RowDatesFrom(rows, i + 1)

RowDates(rows) == RowDatesFrom(rows, 1)

\* norm_name(r.get('fighter_1', '')), norm_name(r.get('fighter_2', '')) of every row
RECURSIVE RowNamesFrom(_, _)
RowNamesFrom(rows, i) ==
    IF i > Len(rows) THEN <<>>
    ELSE <<[f1 |-> norm_name(Get(rows[i], "fighter_1", <<>>)),
            f2 |-> norm_name(Get(rows[i], "fighter_2", <<>>))]>>
         \o RowNamesFrom(rows, i + 1)

RowNames(rows) == RowNamesFrom(rows, 1)

\* a plausible slip: a row without a date is put last, with date.max
OrMin_date_max(d) == IF d = NoDate THEN [y |-> 9999, m |-> 12, d |-> 31] ELSE d

\* d or date.min
OrMin(d) == IF d = NoDate THEN DateMin ELSE d

NameField(side) == IF side = "f1" THEN "fighter_1" ELSE "fighter_2"

\* the fighters in the order in which the loop over rows first meets them
RECURSIVE FightersInOrder(_, _, _)
FightersInOrder(names, i, seen) ==
    IF i > Len(names) THEN seen
    ELSE LET n1 == names[i].f1
             n2 == names[i].f2
             s1 == IF n1 # <<>> /\ IndexOf(seen, n1) = 0 THEN Append(seen, n1) ELSE seen
             s2 == IF n2 # <<>> /\ IndexOf(s1, n2) = 0 THEN Append(s1, n2) ELSE s1
         IN  FightersInOrder(names, i + 1, s2)

\* timeline[fighter]: (date, side, row) in the order of the rows
RECURSIVE TimelineOf(_, _, _, _)
TimelineOf(dates, names, fighter, i) ==
    IF i > Len(names) THEN <<>>
    ELSE LET d  == OrMin(dates[i])
             n1 == names[i].f1
             n2 == names[i].f2
         IN  (IF n1 # <<>> /\ n1 = fighter THEN <<[d |-> d, side |-> "f1", i |-> i]>> ELSE <<>>)
             \o (IF n2 # <<>> /\ n2 = fighter THEN <<[d |-> d, side |-> "f2", i |-> i]>> ELSE <<>>)
             \o TimelineOf(dates, names, fighter, i + 1)

\* x put behind the last item whose date is not later than x's
RECURSIVE InsertByDate(_, _)
InsertByDate(sorted, x) ==
    IF sorted = <<>> THEN <<x>>
    ELSE IF DateLt(x.d, Head(sorted).d) THEN <<x>> \o sorted
    ELSE <<Head(sorted)>> \o InsertByDate(Tail(sorted), x)

\* a plausible slip: the timeline is walked in the order of the rows, unsorted
SortByDate_unsorted(items) == items

\* items.sort(key=lambda x: x[0]): ascending by date, stable
RECURSIVE SortByDate(_)
SortByDate(items) ==
    IF items = <<>> THEN <<>>
    ELSE InsertByDate(SortByDate(SubSeq(items, 1, Len(items) - 1)), items[Len(items)])

\* the writes of one walk step: r[fighter_N_ufcwins], r[fighter_N_ufcloss]
WriteTally(r, side, wins, losses) ==
    LET w == NameField(side) \o "_ufcwins"
        l == NameField(side) \o "_ufcloss"
    IN  [k \in DOMAIN r \cup {w, l} |->
            IF k = w THEN StrOfNat(wins)
            ELSE IF k = l THEN StrOfNat(losses)
            ELSE r[k]]

\* the result of the row as the walk reads it
ResultText(r) ==
    LET v == Get(r, "result", <<>>)
    IN  Lower(Strip(IF v = None THEN <<>> ELSE v))

\* the change of <<wins, losses>> that a row brings to the fighter on `side`
TallyStep(r, side) ==
    LET res == ResultText(r)
    IN  IF StartsWith(res, <<"w", "i", "n">>)
        THEN (IF side = "f1" THEN <<1, 0>> ELSE <<0, 1>>)
        ELSE IF StartsWith(res, <<"l", "o", "s", "s">>) \/ StartsWith(res, <<"l">>)
        THEN (IF side = "f1" THEN <<0, 1>> ELSE <<1, 0>>)
        ELSE <<0, 0>>

\* a plausible slip: the counters are written after the fight's result is counted
RECURSIVE WalkTimeline_write_after(_, _, _, _)
WalkTimeline_write_after(items, rows, wins, losses) ==
    IF items = <<>> THEN rows
    ELSE LET it   == Head(items)
             step == TallyStep(rows[it.i], it.side)
             rows1 == [rows EXCEPT ![it.i] =
                          WriteTally(@, it.side, wins + step[1], losses + step[2])]
         IN  WalkTimeline_write_after(Tail(items), rows1, wins + step[1], losses + step[2])

\* the loop over one fighter's sorted items
RECURSIVE WalkTimeline(_, _, _, _)
WalkTimeline(items, rows, wins, losses) ==
    IF items = <<>> THEN rows
    ELSE LET it   == Head(items)
             rows1 == [rows EXCEPT ![it.i] = WriteTally(@, it.side, wins, losses)]
             step  == TallyStep(rows1[it.i], it.side)
         IN  WalkTimeline(Tail(items), rows1, wins + step[1], losses + step[2])

\* the loop over timeline.items()
RECURSIVE WalkFighters(_, _, _, _)
WalkFighters(fighters, dates, names, rows) ==
    IF fighters = <<>> THEN rows
    ELSE WalkFighters(Tail(fighters), dates, names,
            WalkTimeline(SortByDate(TimelineOf(dates, names, Head(fighters), 1)), rows, 0, 0))

\* the walk of every fighter's timeline, given the rows' parsed dates and names
CountersOf(rows, dates, names) ==
    WalkFighters(FightersInOrder(names, 1, <<>>), dates, names, rows)

compute_ufc_counters(rows) ==
    LET dates == RowDates(rows)
        names == RowNames(rows)
    IN  CountersOf(rows, dates, names)

\* last_seen.get(n): the latest parsed event date of the rows naming n, or NoDate
RECURSIVE LastSeen(_, _, _, _, _)
LastSeen(dates, names, n, i, last) ==
    IF i > Len(names) THEN last
    ELSE IF /\ dates[i] # NoDate
            /\ n # <<>> /\ n \in {names[i].f1, names[i].f2}
            /\ (last = NoDate \/ DateLt(last, dates[i]))
         THEN LastSeen(dates, names, n, i + 1, dates[i])
         ELSE LastSeen(dates, names, n, i + 1, last)

\* int(365.25 * years)
CutoffDays(years) == (36525 * years) \div 100

\* a plausible slip: a fighter without a dated row counts as active
IsActive_default_true(last, t, years) ==
    IF last # NoDate THEN Ordinal(t) - Ordinal(last) <= CutoffDays(years) ELSE TRUE

\* active = False; if last: active = (today - last).days <= cutoff_days
IsActive(last, t, years) ==
    IF last # NoDate THEN Ordinal(t) - Ordinal(last) <= CutoffDays(years) ELSE FALSE

FlagText(b) == IF b THEN <<"T", "R", "U", "E">> ELSE <<"F", "A", "L", "S", "E">>

\* r['fighter_1_active'], r['fighter_2_active'] = 'TRUE' or 'FALSE'
WriteFlags(r, a1, a2) ==
    [k \in DOMAIN r \cup {"fighter_1_active", "fighter_2_active"} |->
        IF k = "fighter_1_active" THEN FlagText(a1)
        ELSE IF k = "fighter_2_active" THEN FlagText(a2)
        ELSE r[k]]

\* the second loop of apply_active_flags, given the rows' parsed dates and names
RECURSIVE FlagsFrom(_, _, _, _, _, _)
FlagsFrom(rows, dates, names, t, years, i) ==
    IF i > Len(rows) THEN <<>>
    ELSE LET a1 == IsActive(LastSeen(dates, names, names[i].f1, 1, NoDate), t, years)
             a2 == IsActive(LastSeen(dates, names, names[i].f2, 1, NoDate), t, years)
         IN  <<WriteFlags(rows[i], a1, a2)>>
         \o FlagsFrom(rows, dates, names, t, years, i + 1)

apply_active_flags(rows, t, years) ==
    LET dates == RowDates(rows)
        names == RowNames(rows)
    IN  FlagsFrom(rows, dates, names, t, years, 1)

----------------------------------------------------------------------------
(* Knowledge base and backfill.  A Counter is the sequence of its items     *)
(* [val, cnt] in insertion order; a timeline is a sequence of [d, val]; the *)
(* knowledge base is a function from normalised names to entries.           *)

\* the last token is held by the file as the three characters U+201A U+00C4 U+00EE
BLANK_TOKENS ==
    { <<>>, Unknown, <<"n", "/", "a">>, <<"n", "a">>, <<"n", "u", "l", "l">>,
      <<"n", "o", "n", "e">>, <<"-">>, <<"U+201A", "U+00C4", "U+00EE">> }

is_blank(v) == IF v = None THEN TRUE ELSE Lower(Strip(Str(v))) \in BLANK_TOKENS

\* bool(v) of an optional string
Truthy(v) == v # None /\ v # <<>>

MaxOf(S) == CHOOSE x \in S : \A y \in S : y <= x

MinOf(S) == CHOOSE x \in S : \A y \in S : x <= y

EmptyKb == <<>>

\* the entry that kb.setdefault creates
NewEntry ==
    [born_counts |-> <<>>, born_timeline |-> <<>>,
     gym_counts |-> <<>>, gym_timeline |-> <<>>,
     last_seen_date |-> DateMin]

\* counter[v] += 1
CounterAdd(counter, v) ==
    IF \E i \in 1..Len(counter) : counter[i].val = v
    THEN [i \in 1..Len(counter) |->
            IF counter[i].val = v THEN [val |-> v, cnt |-> counter[i].cnt + 1]
            ELSE counter[i]]
    ELSE Append(counter, [val |-> v, cnt |-> 1])

\* the entry kbe after the born and gym values of one side of a row dated d
Observe(kbe, d, born_val, gym_val) ==
    [born_counts    |-> IF is_blank(born_val) THEN kbe.born_counts
                        ELSE CounterAdd(kbe.born_counts, born_val),
     born_timeline  |-> IF is_blank(born_val) THEN kbe.born_timeline
                        ELSE Append(kbe.born_timeline, [d |-> d, val |-> born_val]),
     gym_counts     |-> IF is_blank(gym_val) THEN kbe.gym_counts
                        ELSE CounterAdd(kbe.gym_counts, gym_val),
     gym_timeline   |-> IF is_blank(gym_val) THEN kbe.gym_timeline
                        ELSE Append(kbe.gym_timeline, [d |-> d, val |-> gym_val]),
     last_seen_date |-> IF DateLt(kbe.last_seen_date, d) THEN d ELSE kbe.last_seen_date]

\* kb.setdefault(key, ...) followed by the updates of the entry
KbPut(kbase, key, r, d, side) ==
    LET kbe == IF key \in DOMAIN kbase THEN kbase[key] ELSE NewEntry
    IN  [k \in DOMAIN kbase \cup {key} |->
            IF k = key
            THEN Observe(kbe, d, Get(r, side \o "_born", <<>>), Get(r, side \o "_gym", <<>>))
            ELSE kbase[k]]

\* the body of "for side in ('fighter_1', 'fighter_2')" of build_fighter_kb
KbSide(kbase, r, d, side) ==
    IF Truthy(Get(r, side, <<>>)) THEN KbPut(kbase, norm_name(Get(r, side, <<>>)), r, d, side)
    ELSE kbase

\* the body of "for r in rows" of build_fighter_kb, d the parsed date of the row
KbRow(kbase, r, d) ==
    IF d = NoDate THEN kbase
    ELSE KbSide(KbSide(kbase, r, d, "fighter_1"), r, d, "fighter_2")

RECURSIVE KbRows(_, _, _)
KbRows(rows, i, kbase) ==
    IF i > Len(rows) THEN kbase
    ELSE LET d == parse_date_to_obj(Get(rows[i], "event_date", <<>>))
         IN  KbRows(rows, i + 1, KbRow(kbase, rows[i], d))

\* the loop that sorts the timelines
SortTimelines(kbase) ==
    [k \in DOMAIN kbase |->
        [kbase[k] EXCEPT !.born_timeline = SortByDate(@), !.gym_timeline = SortByDate(@)]]

build_fighter_kb(rows) == SortTimelines(KbRows(rows, 1, EmptyKb))

\* most_common()[0][1]
TopCount(counter) == MaxOf({counter[i].cnt : i \in 1..Len(counter)})

\* [val for val, cnt in most_common if cnt == top_count], as a set
Candidates(counter) ==
    {counter[i].val : i \in {j \in 1..Len(counter) : counter[j].cnt = TopCount(counter)}}

\* the positions of the timeline whose value is one of the candidates
TiedAt(counter, timeline) ==
    {i \in 1..Len(timeline) : timeline[i].val \in Candidates(counter)}

\* the positions of the timeline whose value is not blank
NonBlankAt(timeline) == {i \in 1..Len(timeline) : ~is_blank(timeline[i].val)}

\* "for d, val in reversed(timeline): if <test>: return val" over the positions
\* that pass the test; None when the loop ends without a return
LatestAt(timeline, hits) ==
    IF hits = {} THEN None ELSE timeline[MaxOf(hits)].val

\* "for d, val in timeline: if <test>: return val"
EarliestAt(timeline, hits) ==
    IF hits = {} THEN None ELSE timeline[MinOf(hits)].val

\* a plausible slip: a tie goes to the tied value that the timeline holds first
choose_mode_with_recent_fallback_earliest(counter, timeline) ==
    LET tied == EarliestAt(timeline, TiedAt(counter, timeline))
    IN  IF counter # <<>> /\ Cardinality(Candidates(counter)) = 1
        THEN CHOOSE v \in Candidates(counter) : TRUE
        ELSE IF counter # <<>> /\ tied # None THEN tied
        ELSE LatestAt(timeline, NonBlankAt(timeline))

choose_mode_with_recent_fallback(counter, timeline) ==
    LET tied == LatestAt(timeline, TiedAt(counter, timeline))
    IN  IF counter # <<>> /\ Cardinality(Candidates(counter)) = 1
        THEN CHOOSE v \in Candidates(counter) : TRUE
        ELSE IF counter # <<>> /\ tied # None THEN tied
        ELSE LatestAt(timeline, NonBlankAt(timeline))

\* the first loop of find_gym_for_date, with its break
RECURSIVE PrevVal(_, _, _, _)
PrevVal(timeline, target, i, prev_val) ==
    IF i > Len(timeline) THEN prev_val
    ELSE LET p == IF DateLeq(timeline[i].d, target) /\ ~is_blank(timeline[i].val)
                  THEN timeline[i].val ELSE prev_val
         IN  IF DateLt(target, timeline[i].d) THEN p
             ELSE PrevVal(timeline, target, i + 1, p)

\* the second loop of find_gym_for_date, and the fallback to the mode
EarliestFrom(timeline, target, mode_value) ==
    LET later == {i \in 1..Len(timeline) :
                     DateLeq(target, timeline[i].d) /\ ~is_blank(timeline[i].val)}
    IN  IF later # {} THEN timeline[MinOf(later)].val ELSE mode_value

\* a plausible slip: the mode is preferred to the date-proximate value
find_gym_for_date_mode_first(timeline, target, mode_value) ==
    LET prev_val == PrevVal(timeline, target, 1, None)
    IN  IF Truthy(mode_value) THEN mode_value
        ELSE IF Truthy(prev_val) THEN prev_val
        ELSE EarliestFrom(timeline, target, mode_value)

find_gym_for_date(timeline, target, mode_value) ==
    LET prev_val == PrevVal(timeline, target, 1, None)
    IN  IF Truthy(prev_val) THEN prev_val
        ELSE EarliestFrom(timeline, target, mode_value)

\* counts.most_common(1)[0][0] if counts else None: of the values with the top
\* count, the one that was counted first
ModeOf(counter) ==
    IF counter = <<>> THEN None
    ELSE counter[MinOf({i \in 1..Len(counter) : counter[i].cnt = TopCount(counter)})].val

\* "if best and not is_blank(best): r[col] = best"
Fill(r, col, best) ==
    IF Truthy(best) /\ ~is_blank(best)
    THEN [k \in DOMAIN r \cup {col} |-> IF k = col THEN best ELSE r[k]]
    ELSE r

\* a plausible slip: the born field is written whether it is blank or not
FillBorn_overwrite(r, col, info) ==
    LET born_best == choose_mode_with_recent_fallback(info.born_counts, info.born_timeline)
    IN  Fill(r, col, born_best)

\* the born part of backfill_born_gym's loop body
FillBorn(r, col, info) ==
    IF is_blank(Get(r, col, <<>>))
    THEN LET born_best ==
                 choose_mode_with_recent_fallback(info.born_counts, info.born_timeline)
         IN  Fill(r, col, born_best)
    ELSE r

\* the gym part of backfill_born_gym's loop body
FillGym(r, col, info, d) ==
    IF is_blank(Get(r, col, <<>>))
    THEN LET gym_best == find_gym_for_date(info.gym_timeline, d, ModeOf(info.gym_counts))
         IN  Fill(r, col, gym_best)
    ELSE r

\* a plausible slip: the gym is looked at only when born was not filled (elif)
BackfillSide_born_else_gym(r, side, kbase, d) ==
    IF ~Truthy(Get(r, side, <<>>)) THEN r
    ELSE IF norm_name(Get(r, side, <<>>)) \notin DOMAIN kbase THEN r
    ELSE IF FillBorn(r, side \o "_born", kbase[norm_name(Get(r, side, <<>>))]) # r
    THEN FillBorn(r, side \o "_born", kbase[norm_name(Get(r, side, <<>>))])
    ELSE FillGym(r, side \o "_gym", kbase[norm_name(Get(r, side, <<>>))], d)

\* the body of "for side in ('fighter_1', 'fighter_2')" of backfill_born_gym
BackfillSide(r, side, kbase, d) ==
    IF ~Truthy(Get(r, side, <<>>)) THEN r
    ELSE IF norm_name(Get(r, side, <<>>)) \notin DOMAIN kbase THEN r
    ELSE FillGym(FillBorn(r, side \o "_born", kbase[norm_name(Get(r, side, <<>>))]),
                 side \o "_gym", kbase[norm_name(Get(r, side, <<>>))], d)

\* the body of "for r in rows" of backfill_born_gym, d the date of the row or date.min
BackfillRow(r, kbase, d) ==
    BackfillSide(BackfillSide(r, "fighter_1", kbase, d), "fighter_2", kbase, d)

backfill_born_gym(rows, kbase) ==
    [i \in 1..Len(rows) |->
        LET d == OrMin(parse_date_to_obj(Get(rows[i], "event_date", <<>>)))
        IN  BackfillRow(rows[i], kbase, d)]

\* kb = build_fighter_kb(final_rows)
BuildFighterKb ==
    /\ pc = "kb"
    /\ kb' = build_fighter_kb(final_rows)
    /\ pc' = "backfill"
    /\ UNCHANGED <<final_rows, rows_in, today, mergeVars, pureVars, storeVars>>

\* backfill_born_gym(final_rows, kb)
BackfillBornGym ==
    /\ pc = "backfill"
    /\ final_rows' = backfill_born_gym(final_rows, kb)
    /\ pc' = "counters"
    /\ UNCHANGED <<rows_in, kb, today, mergeVars, pureVars, storeVars>>

----------------------------------------------------------------------------
(* The enrichment steps of main, lines 936-940, and the enrichment applied  *)
(* to bounded record sets.                                                  *)

\* years=3 in main's call of apply_active_flags
WindowYears == 3

\* date.today(): 1095, 1096 and 1097 days after 2022-08-23
Todays ==
    { [y |-> 2025, m |-> 8, d |-> 22],
      [y |-> 2025, m |-> 8, d |-> 23],
      [y |-> 2025, m |-> 8, d |-> 24] }

\* compute_ufc_counters(final_rows)
ComputeCounters ==
    /\ pc = "counters"
    /\ final_rows' = compute_ufc_counters(final_rows)
    /\ pc' = "flags"
    /\ UNCHANGED <<rows_in, kb, today, mergeVars, pureVars, storeVars>>

\* apply_active_flags(final_rows, years=3)
ApplyActiveFlags ==
    /\ pc = "flags"
    /\ \E t \in Todays :
          /\ today' = t
          /\ final_rows' = apply_active_flags(final_rows, t, WindowYears)
    /\ pc' = "done"
    /\ UNCHANGED <<rows_in, kb, mergeVars, pureVars, storeVars>>

MaxRows == 3

Win == <<"w", "i", "n">>

Loss == <<"l", "o", "s", "s">>

Draw == <<"d", "r", "a", "w">>

Day23 == <<"2022", "-", "08", "-", "23">>

Day20 == <<"Aug", " ", "20", ",", " ", "2022">>

NoDay == <<"T", "B", "D">>

Row(d, f1, f2, res) ==
    [event_date |-> d, fighter_1 |-> f1, fighter_2 |-> f2, result |-> res]

\* fights of Al and Bo on two days and on no readable day, with Al on either
\* side, won, lost and drawn, and a row that names Al on both sides
EnrichRows ==
    { Row(Day23, NameAl, NameBo, Win),
      Row(Day23, NameBo, <<"a", "L">>, Win),
      Row(Day23, NameAl, <<"a", "l", " ">>, Win),
      Row(Day20, NameAl, NameBo, Loss),
      Row(Day20, NameAl, NameBo, Draw),
      Row(Day20, NameBo, <<"a", "L">>, Win),
      Row(NoDay, NameAl, NameBo, Win),
      Row(NoDay, NameBo, <<"a", "L">>, Draw) }

InitEnrich ==
    /\ pc = "counters"
    /\ final_rows \in UNION { [1..n -> EnrichRows] : n \in 0..MaxRows }
    /\ rows_in = Idle
    /\ kb = Idle
    /\ today = Idle
    /\ IdleMerge /\ IdleKey /\ IdleStore /\ IdleSelect /\ IdleFetch

NextEnrich == ComputeCounters \/ ApplyActiveFlags

SpecEnrich == InitEnrich /\ [][NextEnrich]_vars

----------------------------------------------------------------------------
(* The claims about the tallies, stated over the rows alone.  An entry is   *)
(* <<row, side>>; dates and names are RowDates and RowNames of the rows.    *)

\* compute_ufc_counters has just returned
TallyWritten == pc = "flags"

SideSet == {"f1", "f2"}

\* the entries of fighter n
RefEntries(names, n) ==
    { e \in (1..Len(names)) \X SideSet : n # <<>> /\ names[e[1]][e[2]] = n }

\* the fighters named by the rows
RefFighters(names) ==
    { names[i][side] : i \in 1..Len(names), side \in SideSet } \ {<<>>}

\* e comes before g in the date-ascending walk (equal dates: in the order of the
\* rows, side 1 before side 2)
RefBefore(dates, e, g) ==
    \/ DateLt(OrMin(dates[e[1]]), OrMin(dates[g[1]]))
    \/ /\ OrMin(dates[e[1]]) = OrMin(dates[g[1]])
       /\ (e[1] < g[1] \/ (e[1] = g[1] /\ e[2] = "f1" /\ g[2] = "f2"))

\* what the fight of entry e is for the fighter of that entry: "W", "L" or "N"
RefOutcome(rows, e) ==
    LET v   == Get(rows[e[1]], "result", <<>>)
        res == Lower(Strip(IF v = None THEN <<>> ELSE v))
    IN  IF StartsWith(res, Win) THEN (IF e[2] = "f1" THEN "W" ELSE "L")
        ELSE IF StartsWith(res, <<"l">>) THEN (IF e[2] = "f1" THEN "L" ELSE "W")
        ELSE "N"

\* the tally written on the side of entry e, as text
TallyText(rows, e) ==
    <<Get(rows[e[1]], NameField(e[2]) \o "_ufcwins", None),
      Get(rows[e[1]], NameField(e[2]) \o "_ufcloss", None)>>

\* the numbers of wins and losses in a set of entries, as text
CountText(rows, es) ==
    <<StrOfNat(Cardinality({g \in es : RefOutcome(rows, g) = "W"})),
      StrOfNat(Cardinality({g \in es : RefOutcome(rows, g) = "L"}))>>

\* the tally on entry e counts the entries of its fighter in other rows that
\* come before e, and nothing else
TallyIsOfEarlier(rows, dates, names, e) ==
    LET earlier == {g \in RefEntries(names, names[e[1]][e[2]]) :
                       g[1] # e[1] /\ RefBefore(dates, g, e)}
    IN  TallyText(rows, e) = CountText(rows, earlier)

\* the tally on every side that names a fighter counts the fighter's earlier
\* records; with distinct = TRUE, on the rows whose sides name different fighters
TalliesAreOfEarlier(rows, dates, names, distinct) ==
    \A e \in (1..Len(rows)) \X SideSet :
        (names[e[1]][e[2]] # <<>> /\ (distinct => names[e[1]].f1 # names[e[1]].f2))
            => TallyIsOfEarlier(rows, dates, names, e)

\* a fighter whose only two records are a win and then a loss shows (0,0), (1,0)
WinThenLoss(rows, dates, es) ==
    \A e, g \in es :
        (/\ es = {e, g}
         /\ e[1] # g[1]
         /\ RefBefore(dates, e, g)
         /\ RefOutcome(rows, e) = "W"
         /\ RefOutcome(rows, g) = "L")
            => /\ TallyText(rows, e) = <<<<"0">>, <<"0">>>>
               /\ TallyText(rows, g) = <<<<"1">>, <<"0">>>>

WinThenLossOfAll(rows, dates, names) ==
    \A n \in RefFighters(names) : WinThenLoss(rows, dates, RefEntries(names, n))

RECURSIVE RefWalk(_, _)
RefWalk(dates, es) ==
    IF es = {} THEN <<>>
    ELSE LET first == CHOOSE e \in es : \A g \in es \ {e} : RefBefore(dates, e, g)
         IN  <<first>> \o RefWalk(dates, es \ {first})

\* the tally written on entry e, as numbers
TallyOf(rows, e) ==
    LET t == TallyText(rows, e)
    IN  <<CHOOSE n \in 0..(2 * Len(rows)) : StrOfNat(n) = t[1],
          CHOOSE n \in 0..(2 * Len(rows)) : StrOfNat(n) = t[2]>>

\* b is the tally that follows tally a over a record with the given outcome
TallyFollows(a, b, outcome) ==
    /\ a[1] <= b[1] /\ a[2] <= b[2]
    /\ IF outcome = "N" THEN b = a
       ELSE b \in {<<a[1] + 1, a[2]>>, <<a[1], a[2] + 1>>}

TalliesGrow(rows, walk) ==
    \A j \in 1..(Len(walk) - 1) :
        TallyFollows(TallyOf(rows, walk[j]), TallyOf(rows, walk[j + 1]),
                     RefOutcome(rows, walk[j]))

TalliesGrowOfAll(rows, dates, names) ==
    \A n \in RefFighters(names) : TalliesGrow(rows, RefWalk(dates, RefEntries(names, n)))

(* C8: for every competitor, the tallies written to the competitor's records, *)
(* read in chronological order, never decrease; from one record to the next   *)
(* exactly one of wins and losses grows by one when the earlier record's      *)
(* result is a win or a loss, and neither changes when it is a draw.          *)
C8_TalliesGrowByOnePerResult ==
    TallyWritten =>
        LET dates == RowDates(final_rows)
            names == RowNames(final_rows)
        IN  TalliesGrowOfAll(final_rows, dates, names)

\* Al's three records in chronological order are rows 2, 3, 1: a win, a draw
\* and a loss, with tallies (0,0), (1,0), (1,0)
C8_Witness ==
    /\ pc = "flags"
    /\ Len(final_rows) = 3
    /\ final_rows[1].event_date = Day23
    /\ final_rows[1].fighter_1 = NameBo
    /\ final_rows[2].event_date = NoDay
    /\ final_rows[2].fighter_1 = NameAl /\ final_rows[2].result = Win
    /\ final_rows[3].event_date = Day20
    /\ final_rows[3].result = Draw
    /\ TallyText(final_rows, <<2, "f1">>) = <<<<"0">>, <<"0">>>>
    /\ TallyText(final_rows, <<3, "f1">>) = <<<<"1">>, <<"0">>>>
    /\ TallyText(final_rows, <<1, "f2">>) = <<<<"1">>, <<"0">>>>

----------------------------------------------------------------------------
(* The claims about the activity flags. *)

FlagsWritten == pc = "done"

\* the latest parsed date among the rows that name n, NoDate if there is none
RefLastSeen(dates, names, n) ==
    LET ds == {dates[i] : i \in {j \in 1..Len(names) : n \in {names[j].f1, names[j].f2}}}
                 \ {NoDate}
    IN  IF ds = {} THEN NoDate
        ELSE CHOOSE d \in ds : \A o \in ds : DateLeq(o, d)

\* round(365.25 * years): to the nearest integer, a half to the even one
RoundCutoff(years) ==
    LET q == (36525 * years) \div 100
        r == (36525 * years) % 100
    IN  IF r > 50 \/ (r = 50 /\ q % 2 = 1) THEN q + 1 ELSE q

FlagOf(rows, e) == Get(rows[e[1]], NameField(e[2]) \o "_active", None)

\* every side of a fighter with a dated record is flagged TRUE exactly when the
\* latest of the dates is at most `days` days before today
ActiveWithin(rows, dates, names, days) ==
    \A e \in (1..Len(rows)) \X SideSet :
        RefLastSeen(dates, names, names[e[1]][e[2]]) # NoDate =>
            (FlagOf(rows, e) = FlagText(TRUE)
                <=> Ordinal(today) - Ordinal(RefLastSeen(dates, names, names[e[1]][e[2]]))
                        <= days)

(* C9 as stated: a side is flagged active exactly when the days from the      *)
(* competitor's most recent parsed event date to today are at most            *)
(* round(365.25 * window_years); with a window of 3 years, 1096 days ago is   *)
(* active and 1097 days ago is not.                                           *)
C9_ActiveWithinRoundedWindow ==
    FlagsWritten =>
        LET dates == RowDates(final_rows)
            names == RowNames(final_rows)
        IN  ActiveWithin(final_rows, dates, names, RoundCutoff(WindowYears))

\* every side of a fighter without a dated record is flagged FALSE
UndatedInactive(rows, dates, names) ==
    \A e \in (1..Len(rows)) \X SideSet :
        RefLastSeen(dates, names, names[e[1]][e[2]]) = NoDate
            => FlagOf(rows, e) = FlagText(FALSE)

(* C10: a competitor none of whose records has a parseable event date is      *)
(* flagged 'FALSE' on every record and side where they appear, whatever       *)
(* today's date is.                                                           *)
C10_UndatedIsInactive ==
    FlagsWritten =>
        LET dates == RowDates(final_rows)
            names == RowNames(final_rows)
        IN  UndatedInactive(final_rows, dates, names)

\* Bo has two undated records and is flagged FALSE on both, while Al, who also
\* has a record dated 1095 days before today, is flagged TRUE
C10_Witness ==
    /\ pc = "done"
    /\ today = [y |-> 2025, m |-> 8, d |-> 22]
    /\ Len(final_rows) = 3
    /\ final_rows[1].event_date = NoDay
    /\ final_rows[1].fighter_1 = NameAl /\ final_rows[1].fighter_2 = NameBo
    /\ final_rows[2].event_date = NoDay
    /\ final_rows[2].fighter_1 = NameBo
    /\ final_rows[3].event_date = Day23
    /\ final_rows[3].fighter_2 = <<"a", "l", " ">>
    /\ FlagOf(final_rows, <<1, "f2">>) = FlagText(FALSE)
    /\ FlagOf(final_rows, <<2, "f1">>) = FlagText(FALSE)
    /\ FlagOf(final_rows, <<1, "f1">>) = FlagText(TRUE)

----------------------------------------------------------------------------
(* compute_ufc_counters applied to records with results in many spellings, *)
(* without a readable date, and dated date.min.                            *)

\* date text that parses to date.min
DayMin == <<"0001", "-", "01", "-", "01">>

\* Al against Bo: won (padded, capitalised), lost ('L', 'loss'), an unrecognised
\* result that begins with 'l', no contest and no result; undated; on date.min
TallyRows ==
    { Row(Day23, NameAl, NameBo, <<" ", "W", "i", "n", " ">>),
      Row(Day20, NameAl, NameBo, <<"L">>),
      Row(Day20, NameBo, NameAl, Loss),
      Row(Day20, NameAl, NameBo, <<"l", "i", "v", "e">>),
      Row(Day23, NameAl, NameBo, <<"N", "C">>),
      Row(Day23, NameBo, NameAl, None),
      Row(NoDay, NameAl, NameBo, Win),
      Row(DayMin, NameAl, NameBo, Loss) }

InitTally ==
    /\ pc = "counters"
    /\ final_rows \in UNION { [1..n -> TallyRows] : n \in 0..MaxRows }
    /\ rows_in = Idle
    /\ kb = Idle
    /\ today = Idle
    /\ IdleMerge /\ IdleKey /\ IdleStore /\ IdleSelect /\ IdleFetch

NextTally == ComputeCounters

SpecTally == InitTally /\ [][NextTally]_vars

\* what the claim makes of the result of entry e for the fighter of that entry:
\* a result beginning with 'win' is a win of side A and a loss of side B, one
\* beginning with 'loss', or the bare 'l', the inverse, anything else nothing
ClaimedOutcome(rows, e) ==
    LET v   == Get(rows[e[1]], "result", <<>>)
        res == Lower(Strip(IF v = None THEN <<>> ELSE v))
    IN  IF StartsWith(res, Win) THEN (IF e[2] = "f1" THEN "W" ELSE "L")
        ELSE IF StartsWith(res, Loss) \/ res = <<"l">>
        THEN (IF e[2] = "f1" THEN "L" ELSE "W")
        ELSE "N"

\* tally b is tally a with the outcome added
TallyAdds(a, b, outcome) ==
    b = <<a[1] + (IF outcome = "W" THEN 1 ELSE 0), a[2] + (IF outcome = "L" THEN 1 ELSE 0)>>

\* along the walk, the tallies start at (0,0) and each record adds its outcome
\* as the claim reads it
TalliesAddClaimed(rows, walk) ==
    /\ walk # <<>> => TallyOf(rows, walk[1]) = <<0, 0>>
    /\ \A j \in 1..(Len(walk) - 1) :
          TallyAdds(TallyOf(rows, walk[j]), TallyOf(rows, walk[j + 1]),
                    ClaimedOutcome(rows, walk[j]))

TalliesAddClaimedOfAll(rows, dates, names) ==
    \A n \in RefFighters(names) :
        TalliesAddClaimed(rows, RefWalk(dates, RefEntries(names, n)))

(* C15 as stated: in the tally walk a result (trimmed, case-folded) beginning *)
(* with 'win' adds a win to the side-A competitor and a loss to the side-B    *)
(* competitor, one beginning with 'loss' (or the bare 'l') does the inverse,  *)
(* and every other value, unrecognised text included, changes neither         *)
(* competitor's counts.                                                       *)
C15_ResultInterpretation ==
    TallyWritten =>
        LET dates == RowDates(final_rows)
            names == RowNames(final_rows)
        IN  TalliesAddClaimedOfAll(final_rows, dates, names)

\* the entries of fighter n in rows without a readable date
UndatedEntries(dates, names, n) ==
    {e \in RefEntries(names, n) : dates[e[1]] = NoDate}

\* the tally of entry e has the wins and losses of the entries es in it
TallyIncludes(rows, e, es) ==
    /\ TallyOf(rows, e)[1] >= Cardinality({u \in es : RefOutcome(rows, u) = "W"})
    /\ TallyOf(rows, e)[2] >= Cardinality({u \in es : RefOutcome(rows, u) = "L"})

\* every record of a fighter dated after `floor` has the results of all the
\* fighter's undated records in its tally
UndatedCounted(rows, dates, names, floor) ==
    \A n \in RefFighters(names) :
        \A e \in RefEntries(names, n) :
            (dates[e[1]] # NoDate /\ DateLt(floor, dates[e[1]]))
                => TallyIncludes(rows, e, UndatedEntries(dates, names, n))

\* the tally of a fighter's undated record has no result of a record dated
\* after date.min in it
UndatedFirst(rows, dates, names) ==
    \A n \in RefFighters(names) :
        \A u \in UndatedEntries(dates, names, n) :
            LET es == {g \in RefEntries(names, n) : OrMin(dates[g[1]]) = DateMin}
            IN  /\ TallyOf(rows, u)[1] <= Cardinality({g \in es : RefOutcome(rows, g) = "W"})
                /\ TallyOf(rows, u)[2] <= Cardinality({g \in es : RefOutcome(rows, g) = "L"})

\* the walk has written a tally on every side that names a fighter
AllTalliesWritten(rows, names) ==
    \A e \in (1..Len(rows)) \X SideSet :
        names[e[1]][e[2]] # <<>> =>
            /\ TallyText(rows, e)[1] # None
            /\ TallyText(rows, e)[2] # None

(* C16 as stated: in each competitor's walk the records whose date cannot be  *)
(* parsed come before every record with a parseable date, so their results    *)
(* are counted in the tally written to every dated record of the competitor.  *)
C16_UndatedBeforeEveryDated ==
    TallyWritten =>
        LET dates == RowDates(final_rows)
            names == RowNames(final_rows)
        IN  UndatedCounted(final_rows, dates, names, NoDate)

(* C16 amended: the records whose date cannot be parsed come before every     *)
(* record dated after date.min (0001-01-01): their results are counted in the *)
(* tally of every such record of the competitor, their own tallies hold no    *)
(* result of such a record, and the walk writes a tally on every side that    *)
(* names a competitor.  (A record dated date.min has the sentinel's date and  *)
(* is walked in dataset order among the undated ones.)                        *)
C16_UndatedBeforeDatedAfterMin ==
    TallyWritten =>
        LET dates == RowDates(final_rows)
            names == RowNames(final_rows)
        IN  /\ UndatedCounted(final_rows, dates, names, DateMin)
            /\ UndatedFirst(final_rows, dates, names)
            /\ AllTalliesWritten(final_rows, names)

\* Al lost on 20 August 2022 (row 1) and won the undated fight (row 2): the
\* undated row has (0,0) for Al and the dated one (1,0)
C16_Witness ==
    /\ pc = "flags"
    /\ Len(final_rows) = 2
    /\ final_rows[1].event_date = Day20
    /\ final_rows[1].fighter_1 = NameAl /\ final_rows[1].result = <<"L">>
    /\ final_rows[2].event_date = NoDay
    /\ final_rows[2].fighter_1 = NameAl /\ final_rows[2].result = Win
    /\ TallyText(final_rows, <<2, "f1">>) = <<<<"0">>, <<"0">>>>
    /\ TallyText(final_rows, <<1, "f1">>) = <<<<"1">>, <<"0">>>>
    /\ TallyText(final_rows, <<1, "f2">>) = <<<<"0">>, <<"1">>>>

----------------------------------------------------------------------------
(* build_fighter_kb and backfill_born_gym applied to bounded record sets. *)

Rio == <<"R", "i", "o">>

Oslo == <<"O", "s", "l", "o">>

CampA == <<"C", "a", "m", "p", " ", "A">>

CampB == <<"C", "a", "m", "p", " ", "B">>

BornGymFields == {"fighter_1_born", "fighter_1_gym", "fighter_2_born", "fighter_2_gym"}

BRow(d, f1, f2, b1, g1, b2, g2) ==
    [event_date |-> d, fighter_1 |-> f1, fighter_2 |-> f2,
     fighter_1_born |-> b1, fighter_1_gym |-> g1,
     fighter_2_born |-> b2, fighter_2_gym |-> g2]

\* fights of Al and Bo on two days and on no readable day, with born and gym
\* known, blank in several spellings, or absent from the row
BackfillRows ==
    { BRow(Day20, NameAl, NameBo, Rio, CampA, <<>>, <<>>),
      BRow(Day23, NameAl, NameBo, Oslo, CampB,
           <<"U", "n", "k", "n", "o", "w", "n">>, <<" ", "N", "/", "A">>),
      BRow(Day23, NameBo, <<"a", "L">>, Rio, CampA, <<>>, None),
      BRow(Day20, NameBo, NameAl, <<>>, <<"-">>, Oslo, CampB),
      BRow(NoDay, NameAl, NameBo, <<>>, <<>>, <<>>, <<>>),
      BRow(NoDay, NameAl, NameBo, Oslo, CampB, Rio, <<>>),
      Row(Day23, NameAl, NameBo, Win),
      BRow(Day20, <<>>, NameAl, Rio, CampA, <<>>, <<>>) }

InitBackfill ==
    /\ pc = "kb"
    /\ final_rows \in UNION { [1..n -> BackfillRows] : n \in 0..MaxRows }
    /\ rows_in = final_rows
    /\ kb = EmptyKb
    /\ today = Idle
    /\ IdleMerge /\ IdleKey /\ IdleStore /\ IdleSelect /\ IdleFetch

NextBackfill == BuildFighterKb \/ BackfillBornGym

SpecBackfill == InitBackfill /\ [][NextBackfill]_vars

\* backfill_born_gym has just returned
Backfilled == pc = "counters"

\* row `after` is row `before` with nothing but blank or absent born and gym
\* fields written
OnlyBlanksFilled(before, after) ==
    /\ DOMAIN before \subseteq DOMAIN after
    /\ DOMAIN after \ DOMAIN before \subseteq BornGymFields
    /\ \A f \in DOMAIN before :
          (f \notin BornGymFields \/ ~is_blank(before[f])) => after[f] = before[f]

(* C11: the backfill pass only fills blank fields: for every record and side, *)
(* a born or gym field that is non-blank before backfill_born_gym has the     *)
(* same value after it, every other field of the record is unchanged, and no  *)
(* record is added, removed or moved.                                         *)
C11_BackfillOnlyFillsBlanks ==
    Backfilled =>
        /\ Len(final_rows) = Len(rows_in)
        /\ \A i \in 1..Len(rows_in) : OnlyBlanksFilled(rows_in[i], final_rows[i])

\* the knowledge base has Rio and Camp A for both fighters; the blank fields of
\* the two dated rows are filled with them, and the undated row keeps Oslo and
\* Camp B, which the knowledge base does not have, and gets Bo's blank gym filled
C11_Witness ==
    /\ pc = "counters"
    /\ Len(rows_in) = 3
    /\ rows_in[1] = BRow(Day20, NameAl, NameBo, Rio, CampA, <<>>, <<>>)
    /\ rows_in[2] = BRow(Day23, NameBo, <<"a", "L">>, Rio, CampA, <<>>, None)
    /\ rows_in[3] = BRow(NoDay, NameAl, NameBo, Oslo, CampB, Rio, <<>>)
    /\ final_rows[1] = BRow(Day20, NameAl, NameBo, Rio, CampA, Rio, CampA)
    /\ final_rows[2] = BRow(Day23, NameBo, <<"a", "L">>, Rio, CampA, Rio, CampA)
    /\ final_rows[3] = BRow(NoDay, NameAl, NameBo, Oslo, CampB, Rio, CampA)

----------------------------------------------------------------------------
(* The enrichment of main run again on its own output: a later run builds   *)
(* the knowledge base from the rows that the earlier run left.              *)

\* row r with the result res
Resulted(r, res) ==
    [k \in DOMAIN r \cup {"result"} |-> IF k = "result" THEN res ELSE r[k]]

\* fights of Al and Bo with born and gym known, blank or absent, with and
\* without a result, on two days and on no readable day, one with an empty name
RerunRows ==
    { Resulted(BRow(Day20, NameAl, NameBo, Rio, CampA, <<>>, <<>>), Loss),
      Resulted(BRow(Day23, NameBo, <<"a", "L">>, <<>>, None, <<>>, CampB), Win),
      Resulted(BRow(NoDay, NameAl, NameBo, Oslo, CampB, Rio, <<>>), Win),
      BRow(Day23, NameAl, NameBo, Oslo, <<>>,
           <<"U", "n", "k", "n", "o", "w", "n">>, <<" ", "N", "/", "A">>),
      Resulted(BRow(Day20, <<>>, NameAl, Rio, CampA, <<>>, <<"-">>), Draw),
      Row(Day20, NameBo, NameAl, Win) }

InitRerun ==
    /\ pc = "kb"
    /\ final_rows \in UNION { [1..n -> RerunRows] : n \in 0..MaxRows }
    /\ rows_in = final_rows
    /\ kb = EmptyKb
    /\ today = NoDate
    /\ IdleMerge /\ IdleKey /\ IdleStore /\ IdleSelect /\ IdleFetch

\* the program is run again on the rows it left: final_rows is what the
\* enrichment receives, and the knowledge base is built anew from it
RunAgain ==
    /\ pc = "done"
    /\ rows_in' = final_rows
    /\ pc' = "kb"
    /\ UNCHANGED <<final_rows, kb, today, mergeVars, pureVars, storeVars>>

NextRerun ==
    \/ BuildFighterKb
    \/ BackfillBornGym
    \/ ComputeCounters
    \/ ApplyActiveFlags
    \/ RunAgain

SpecRerun == InitRerun /\ [][NextRerun]_vars

\* the step that ends a run of the enrichment, reading for date.today() the
\* value that the run before it read
EndsRunOnSameDay == pc = "flags" /\ pc' = "done" /\ today' = today

(* C22: enrichment is idempotent across repeated runs: running the pass       *)
(* (build_fighter_kb, backfill_born_gym, compute_ufc_counters,                *)
(* apply_active_flags with the same today) on its own output, with the        *)
(* knowledge base rebuilt from that output, changes no field of any record.   *)
C22_EnrichmentIdempotent == [][EndsRunOnSameDay => final_rows' = rows_in]_vars

\* a second run has ended on 2025-08-22, 1095 days after the later fight, with
\* the rows the first run left: Al's born, blank in the file, was filled with
\* Rio by the first run, Bo's born is still blank, the tallies are written and
\* both fighters are flagged TRUE
C22_Witness ==
    /\ pc = "done"
    /\ today = [y |-> 2025, m |-> 8, d |-> 22]
    /\ Len(rows_in) = 2
    /\ final_rows = rows_in
    /\ Get(rows_in[1], "event_date", None) = Day20
    /\ Get(rows_in[1], "fighter_2_born", None) = <<>>
    /\ Get(rows_in[2], "event_date", None) = Day23
    /\ Get(rows_in[2], "fighter_2", None) = <<"a", "L">>
    /\ Get(rows_in[2], "fighter_2_born", None) = Rio
    /\ Get(rows_in[2], "fighter_2_gym", None) = CampB
    /\ Get(rows_in[2], "fighter_1_ufcwins", None) = <<"1">>
    /\ Get(rows_in[2], "fighter_2_ufcloss", None) = <<"1">>
    /\ Get(rows_in[2], "fighter_1_active", None) = FlagText(TRUE)
    /\ Get(rows_in[2], "fighter_2_active", None) = FlagText(TRUE)

----------------------------------------------------------------------------
(* choose_mode_with_recent_fallback and find_gym_for_date applied to bounded *)
(* timelines, counters, target dates and mode values.                        *)

\* the entries of a timeline
MaxTimeline == 3

Aug19 == [y |-> 2022, m |-> 8, d |-> 19]

Aug20 == [y |-> 2022, m |-> 8, d |-> 20]

Aug21 == [y |-> 2022, m |-> 8, d |-> 21]

Aug23 == [y |-> 2022, m |-> 8, d |-> 23]

Aug25 == [y |-> 2022, m |-> 8, d |-> 25]

\* (date, value) pairs: two values, the empty value and a blank token
TimelineEntries ==
    [d : {Aug20, Aug23, Aug25}, val : {CampA, CampB, <<>>, <<" ", "N", "/", "A">>}]

\* timelines as build_fighter_kb leaves them: ascending by date
Timelines ==
    UNION { {t \in [1..n -> TimelineEntries] :
                \A i \in 1..(n - 1) : DateLeq(t[i].d, t[i + 1].d)} :
            n \in 0..MaxTimeline }

\* the Counter that build_fighter_kb keeps beside a timeline: its non-blank values
RECURSIVE CounterOf(_, _, _)
CounterOf(timeline, i, counter) ==
    IF i > Len(timeline) THEN counter
    ELSE CounterOf(timeline, i + 1,
             IF is_blank(timeline[i].val) THEN counter
             ELSE CounterAdd(counter, timeline[i].val))

\* the arguments of a call of choose_mode_with_recent_fallback: the timeline with
\* its Counter, or with an empty Counter
ChooseArgs ==
    { [fn |-> "choose", timeline |-> t,
       counter |-> IF empty THEN <<>> ELSE CounterOf(t, 1, <<>>)] :
        t \in Timelines, empty \in BOOLEAN }

\* the arguments of a call of find_gym_for_date
FindArgs ==
    [fn : {"find"}, timeline : Timelines,
     target : {DateMin, Aug19, Aug21, Aug23, Aug25},
     mode_value : {None, CampA, CampB}]

InitSelect ==
    /\ pc = "select_args"
    /\ sel_in \in ChooseArgs \cup FindArgs
    /\ sel_out = Idle
    /\ IdleMerge /\ IdleKey /\ IdleStore /\ IdleEnrich /\ IdleFetch

\* born_best = choose_mode_with_recent_fallback(counter, timeline)
ChooseMode ==
    /\ pc = "select_args"
    /\ sel_in.fn = "choose"
    /\ sel_out' = choose_mode_with_recent_fallback(sel_in.counter, sel_in.timeline)
    /\ pc' = "selected"
    /\ UNCHANGED <<sel_in, mergeVars, keyVars, storeVars, enrichVars, fetchVars>>

\* gym_best = find_gym_for_date(timeline, target, mode_value)
FindGym ==
    /\ pc = "select_args"
    /\ sel_in.fn = "find"
    /\ sel_out' = find_gym_for_date(sel_in.timeline, sel_in.target, sel_in.mode_value)
    /\ pc' = "selected"
    /\ UNCHANGED <<sel_in, mergeVars, keyVars, storeVars, enrichVars, fetchVars>>

NextSelect == ChooseMode \/ FindGym

SpecSelect == InitSelect /\ [][NextSelect]_vars

\* the frequency of value v in a Counter
Freq(counter, v) ==
    IF \E i \in 1..Len(counter) : counter[i].val = v
    THEN counter[CHOOSE i \in 1..Len(counter) : counter[i].val = v].cnt
    ELSE 0

\* the values of the highest frequency
MostFrequent(counter) ==
    {counter[i].val : i \in {j \in 1..Len(counter) :
                                \A l \in 1..Len(counter) : counter[l].cnt <= counter[j].cnt}}

\* v is the value of the entry of the timeline that is the last of those whose
\* value is in the set vs
IsLatestOf(timeline, vs, v) ==
    \E i \in 1..Len(timeline) :
        /\ timeline[i].val = v
        /\ v \in vs
        /\ \A j \in (i + 1)..Len(timeline) : timeline[j].val \notin vs

NonBlankValues(timeline) ==
    {timeline[i].val : i \in {j \in 1..Len(timeline) : ~is_blank(timeline[j].val)}}

\* what choose_mode_with_recent_fallback is to return for counter and timeline
ModeWithRecency(counter, timeline, out) ==
    LET top == MostFrequent(counter)
    IN  /\ (counter # <<>> /\ Cardinality(top) = 1) => out \in top
        /\ (Cardinality(top) > 1 /\ \E i \in 1..Len(timeline) : timeline[i].val \in top)
              => IsLatestOf(timeline, top, out)
        /\ (counter = <<>> /\ NonBlankValues(timeline) # {})
              => IsLatestOf(timeline, NonBlankValues(timeline), out)
        /\ (counter = <<>> /\ NonBlankValues(timeline) = {}) => out = None

(* C13: choose_mode_with_recent_fallback returns the value of the strictly    *)
(* highest frequency when there is one; when several values tie for the       *)
(* highest frequency, the tied value that occurs latest in the date-ascending *)
(* timeline; when the frequency multiset is empty, the most recent non-blank  *)
(* timeline value; and None when there is none.                               *)
C13_ModeWithRecencyFallback ==
    (pc = "selected" /\ sel_in.fn = "choose")
        => ModeWithRecency(sel_in.counter, sel_in.timeline, sel_out)

\* Camp A and Camp B were seen once each, Camp B on the later day, and a blank
\* entry follows: the tie goes to Camp B
C13_Witness ==
    /\ pc = "selected"
    /\ sel_in.fn = "choose"
    /\ sel_in.timeline = <<[d |-> Aug20, val |-> CampA], [d |-> Aug23, val |-> CampB],
                           [d |-> Aug25, val |-> <<>>]>>
    /\ Freq(sel_in.counter, CampA) = 1
    /\ Freq(sel_in.counter, CampB) = 1
    /\ sel_out = CampB

\* the entries of the timeline that are not blank and dated on or before (on or
\* after) the target
OnOrBefore(timeline, target) ==
    {i \in 1..Len(timeline) : DateLeq(timeline[i].d, target) /\ ~is_blank(timeline[i].val)}

OnOrAfter(timeline, target) ==
    {i \in 1..Len(timeline) : DateLeq(target, timeline[i].d) /\ ~is_blank(timeline[i].val)}

\* what find_gym_for_date is to return
DateProximate(timeline, target, mode_value, out) ==
    LET before == OnOrBefore(timeline, target)
        after  == OnOrAfter(timeline, target)
    IN  IF before # {}
        THEN \E i \in before : /\ out = timeline[i].val
                               /\ \A j \in before : DateLeq(timeline[j].d, timeline[i].d)
        ELSE IF after # {}
        THEN \E i \in after : /\ out = timeline[i].val
                              /\ \A j \in after : DateLeq(timeline[i].d, timeline[j].d)
        ELSE out = mode_value

\* the scenario: Camp A, Camp A, Camp B on increasing dates, asked for a date
\* before all three
CampScenario(timeline, target, out) ==
    (/\ Len(timeline) = 3
     /\ [i \in 1..3 |-> timeline[i].val] = <<CampA, CampA, CampB>>
     /\ DateLt(target, timeline[1].d)
     /\ DateLt(timeline[1].d, timeline[2].d)
     /\ DateLt(timeline[2].d, timeline[3].d))
        => out = CampA

(* C14: for a date-ascending timeline and target date t, find_gym_for_date    *)
(* returns the value of the latest non-blank entry dated <= t if there is     *)
(* one, otherwise that of the earliest non-blank entry dated >= t, and the    *)
(* supplied mode value only when the timeline is empty or entirely blank; for *)
(* Camp A, Camp A, Camp B on increasing dates and t before all three it       *)
(* returns Camp A, whatever the mode value is.                                *)
C14_DateProximateSelection ==
    (pc = "selected" /\ sel_in.fn = "find")
        => /\ DateProximate(sel_in.timeline, sel_in.target, sel_in.mode_value, sel_out)
           /\ CampScenario(sel_in.timeline, sel_in.target, sel_out)

\* the scenario with Camp B supplied as the mode value: Camp A is returned
C14_Witness ==
    /\ pc = "selected"
    /\ sel_in.fn = "find"
    /\ sel_in.timeline = <<[d |-> Aug20, val |-> CampA], [d |-> Aug23, val |-> CampA],
                           [d |-> Aug25, val |-> CampB]>>
    /\ sel_in.target = Aug19
    /\ sel_in.mode_value = CampB
    /\ sel_out = CampA

----------------------------------------------------------------------------
(* fetch_with_retries(url, tries, delay).  Each pass of its loop is one     *)
(* step; the GET of a pass succeeds, or fails in requests.get or in         *)
(* raise_for_status.  f_log lists the GETs and the sleeps in order.         *)

\* the largest value of tries
MaxTries == 3

\* the values of delay, in seconds
Delays == {1, 2, 3}

\* the exceptions that "except Exception" catches: raised by requests.get, or by
\* r.raise_for_status()
GetFailures == {"ConnectionError", "HTTPError"}

\* the value of the call: none yet, None, or the response of the n-th GET
NoResult == [kind |-> "running", of |-> 0]

ReturnedNone == [kind |-> "None", of |-> 0]

Response(n) == [kind |-> "Response", of |-> n]

InitFetch ==
    /\ pc = "fetch"
    /\ f_args \in [tries : 0..MaxTries, delay : Delays]
    /\ attempt = 0
    /\ f_log = <<>>
    /\ f_result = NoResult
    /\ IdleMerge /\ IdleKey /\ IdleStore /\ IdleEnrich /\ IdleSelect

\* range(1, tries + 1) has a next value
HasNextAttempt == attempt < f_args.tries

\* a pass whose GET succeeds: return r
GetSucceeds ==
    /\ pc = "fetch"
    /\ HasNextAttempt
    /\ attempt' = attempt + 1
    /\ f_log' = Append(f_log, [op |-> "get", outcome |-> "ok"])
    /\ f_result' = Response(attempt + 1)
    /\ pc' = "fetched"
    /\ UNCHANGED <<f_args, mergeVars, keyVars, storeVars, enrichVars, selectVars>>

\* a pass whose GET fails: return None on the last attempt, otherwise sleep
GetFails ==
    /\ pc = "fetch"
    /\ HasNextAttempt
    /\ attempt' = attempt + 1
    /\ \E e \in GetFailures :
          IF attempt + 1 = f_args.tries
          THEN /\ f_log' = Append(f_log, [op |-> "get", outcome |-> e])
               /\ f_result' = ReturnedNone
               /\ pc' = "fetched"
          ELSE /\ f_log' = f_log \o <<[op |-> "get", outcome |-> e],
                                      [op |-> "sleep", seconds |-> f_args.delay]>>
               /\ UNCHANGED <<f_result, pc>>
    /\ UNCHANGED <<f_args, mergeVars, keyVars, storeVars, enrichVars, selectVars>>

\* the loop has no pass (tries <= 0): the function ends and returns None
NoAttempt ==
    /\ pc = "fetch"
    /\ f_args.tries <= 0
    /\ f_result' = ReturnedNone
    /\ pc' = "fetched"
    /\ UNCHANGED <<f_args, attempt, f_log, mergeVars, keyVars, storeVars, enrichVars,
                   selectVars>>

NextFetch == GetSucceeds \/ GetFails \/ NoAttempt

SpecFetch == InitFetch /\ [][NextFetch]_vars

Gets(log) == SelectSeq(log, LAMBDA x : x.op = "get")

Sleeps(log) == SelectSeq(log, LAMBDA x : x.op = "sleep")

\* at most `tries` GETs; nothing follows a GET that succeeded; a sleep follows
\* every failed GET but the last one of the call, and nothing else
BoundedAttempts ==
    /\ Len(Gets(f_log)) <= f_args.tries
    /\ \A i \in 1..Len(f_log) :
          /\ (f_log[i].op = "get" /\ f_log[i].outcome = "ok") => i = Len(f_log)
          /\ f_log[i].op = "sleep" =>
                (i > 1 /\ f_log[i - 1].op = "get" /\ f_log[i - 1].outcome # "ok")
    /\ pc = "fetched" => (f_log = <<>> \/ f_log[Len(f_log)].op = "get")

\* the call returns the response of the first GET that succeeded, or None once
\* every one of the `tries` GETs has failed
ReturnsFirstSuccessOrNone ==
    pc = "fetched" =>
        IF \E i \in 1..Len(f_log) : f_log[i].op = "get" /\ f_log[i].outcome = "ok"
        THEN f_result = Response(Len(Gets(f_log)))
        ELSE f_result = ReturnedNone /\ Len(Gets(f_log)) = f_args.tries

\* the call goes on until it returns, and has returned after `tries` passes
Terminates ==
    /\ attempt <= f_args.tries
    /\ pc = "fetch" => (HasNextAttempt \/ f_args.tries <= 0)
    /\ (pc = "fetch" /\ f_args.tries > 0) => Len(Gets(f_log)) = attempt

\* the waits grow from one to the next
GrowingDelays ==
    \A i, j \in 1..Len(Sleeps(f_log)) :
        i < j => Sleeps(f_log)[i].seconds < Sleeps(f_log)[j].seconds

(* C19 as stated: fetch_with_retries makes at most `tries` GET attempts,      *)
(* returns the response of the first that succeeds without attempting again,  *)
(* waits between consecutive failed attempts with a growing (backoff) delay   *)
(* and not after the last one, returns None once all attempts have failed,    *)
(* and always terminates.                                                     *)
C19_BoundedRetriesWithBackoff ==
    /\ BoundedAttempts
    /\ ReturnsFirstSuccessOrNone
    /\ Terminates
    /\ GrowingDelays

\* the claim without the growth of the delay
RetryPolicyWithoutGrowth ==
    /\ BoundedAttempts
    /\ ReturnsFirstSuccessOrNone
    /\ Terminates

----------------------------------------------------------------------------
(* main: the store key_to_row over the load of the file and the scrape,     *)
(* followed by the enrichment.  A row carries the fields that identify a    *)
(* fight and its result; the other columns of rowdict are further text      *)
(* fields, which merge_rows treats in the same way.                         *)

NoEvent == [date_str |-> <<>>, d |-> NoDate]

NoObs == [op |-> "none", k |-> <<>>, row |-> EmptyRow]

ZeroCounts == [new_count |-> 0, updated_count |-> 0, total_new |-> 0, total_updated |-> 0]

\* k in key_to_row
HasKey(store, k) == \E i \in 1..Len(store) : store[i].k = k

KeyIndex(store, k) == CHOOSE i \in 1..Len(store) : store[i].k = k

\* key_to_row[k]
RowOf(store, k) == store[KeyIndex(store, k)].row

\* key_to_row[k] = r: a key that is present keeps its place, a new one goes last
Put(store, k, r) ==
    IF HasKey(store, k) THEN [store EXCEPT ![KeyIndex(store, k)].row = r]
    ELSE Append(store, [k |-> k, row |-> r])

\* list(key_to_row.values())
Values(store) == [i \in 1..Len(store) |-> store[i].row]

\* the body of the loop of load_existing_csv for row r with key k and date d
LoadBody(r, k, d) ==
    /\ key_to_row' = Put(key_to_row, k, r)
    /\ max_date' = IF d # NoDate /\ (max_date = NoDate \/ DateLt(max_date, d))
                   THEN d ELSE max_date
    /\ last_obs' = [op |-> "load", k |-> k, row |-> r]

\* one step of the loop "for r in rows" of load_existing_csv
LoadRow ==
    /\ pc = "load"
    /\ csv_rows # <<>>
    /\ LET k == legacy_key(Get(Head(csv_rows), "event_date", <<>>),
                           Get(Head(csv_rows), "fighter_1", <<>>),
                           Get(Head(csv_rows), "fighter_2", <<>>))
           d == parse_date_to_obj(Get(Head(csv_rows), "event_date", <<>>))
       IN  LoadBody(Head(csv_rows), k, d)
    /\ prev_store' = key_to_row
    /\ csv_rows' = Tail(csv_rows)
    /\ UNCHANGED <<pc, cfg, event, counts, enrichVars, mergeVars, pureVars>>

\* load_existing_csv returns to main; total_new = total_updated = 0
LoadDone ==
    /\ pc = "load"
    /\ csv_rows = <<>>
    /\ pc' = "events"
    /\ counts' = ZeroCounts
    /\ UNCHANGED <<csv_rows, key_to_row, prev_store, max_date, cfg, event, last_obs,
                   enrichVars, mergeVars, pureVars>>

\* the date gating of main: the condition of its break
Gated(d) ==
    /\ ~cfg.backfill
    /\ max_date # NoDate
    /\ IF cfg.update THEN d = NoDate \/ DateLt(d, max_date)
       ELSE d = NoDate \/ DateLeq(d, max_date)

\* the date text of an event page: lis[0] stripped, or "Unknown"
EventDates ==
    { <<"2025", "-", "08", "-", "23">>,
      <<"August", " ", "24", ",", " ", "2025">>,
      <<"U", "n", "k", "n", "o", "w", "n">> }

\* the event with date text date_str and parsed date d: the break that ends the
\* loop, or the start of the event's rows
EventBody(date_str, d) ==
    IF Gated(d)
    THEN /\ pc' = "kb"
         /\ final_rows' = Values(key_to_row)
         /\ rows_in' = Values(key_to_row)
         /\ UNCHANGED <<event, counts>>
    ELSE /\ pc' = "rows"
         /\ event' = [date_str |-> date_str, d |-> d]
         /\ counts' = [counts EXCEPT !.new_count = 0, !.updated_count = 0]
         /\ UNCHANGED <<final_rows, rows_in>>

\* the next event of the list: extract_event_meta, then the date gating
NextEvent ==
    /\ pc = "events"
    /\ \E date_str \in EventDates :
          LET d == parse_date_to_obj(date_str)
          IN  EventBody(date_str, d)
    /\ UNCHANGED <<csv_rows, key_to_row, prev_store, max_date, cfg, last_obs, kb, today,
                   mergeVars, pureVars>>

\* the rows processed by a run, counted as main counts them
MaxObs == 2

\* <<f1_name, f2_name, result>> of a table row, each stripped
ObsFights ==
    { <<NameAl, NameBo, Win>>,
      <<NameBo, NameAl, <<>>>> }

\* a table row whose first fighter link has an empty text
ObsUnnamed == { <<<<>>, NameBo, <<>>>> }

\* a plausible slip: 'updated' is counted for every merge, changed or not
RowBody_count_every_merge(k, rowdict) ==
    IF HasKey(key_to_row, k) /\ ~cfg.update
    THEN /\ last_obs' = [op |-> "skip", k |-> k, row |-> EmptyRow]
         /\ UNCHANGED <<key_to_row, counts>>
    ELSE /\ last_obs' = [op |-> "upsert", k |-> k, row |-> rowdict]
         /\ IF HasKey(key_to_row, k)
            THEN /\ key_to_row' =
                       Put(key_to_row, k, merge_rows(RowOf(key_to_row, k), rowdict))
                 /\ counts' = [counts EXCEPT !.updated_count = @ + 1]
            ELSE /\ key_to_row' = Put(key_to_row, k, rowdict)
                 /\ counts' = [counts EXCEPT !.new_count = @ + 1]

\* a plausible slip: a known key is merged whether UPDATE_EXISTING is set or not
RowBody_no_skip(k, rowdict) ==
    /\ last_obs' = [op |-> "upsert", k |-> k, row |-> rowdict]
    /\ IF HasKey(key_to_row, k)
       THEN IF merge_rows(RowOf(key_to_row, k), rowdict) # RowOf(key_to_row, k)
            THEN /\ key_to_row' =
                       Put(key_to_row, k, merge_rows(RowOf(key_to_row, k), rowdict))
                 /\ counts' = [counts EXCEPT !.updated_count = @ + 1]
            ELSE UNCHANGED <<key_to_row, counts>>
       ELSE /\ key_to_row' = Put(key_to_row, k, rowdict)
            /\ counts' = [counts EXCEPT !.new_count = @ + 1]

\* the body of the loop over the event's table rows, for the row with key k
\* from which rowdict is built
RowBody(k, rowdict) ==
    IF HasKey(key_to_row, k) /\ ~cfg.update
    THEN /\ last_obs' = [op |-> "skip", k |-> k, row |-> EmptyRow]
         /\ UNCHANGED <<key_to_row, counts>>
    ELSE /\ last_obs' = [op |-> "upsert", k |-> k, row |-> rowdict]
         /\ IF HasKey(key_to_row, k)
            THEN IF merge_rows(RowOf(key_to_row, k), rowdict) # RowOf(key_to_row, k)
                 THEN /\ key_to_row' =
                            Put(key_to_row, k, merge_rows(RowOf(key_to_row, k), rowdict))
                      /\ counts' = [counts EXCEPT !.updated_count = @ + 1]
                 ELSE UNCHANGED <<key_to_row, counts>>
            ELSE /\ key_to_row' = Put(key_to_row, k, rowdict)
                 /\ counts' = [counts EXCEPT !.new_count = @ + 1]

\* one table row of the event, one of `fights`: skipped, merged into the stored
\* row, or inserted
UpsertFrom(fights) ==
    /\ pc = "rows"
    /\ counts.total_new + counts.total_updated
           + counts.new_count + counts.updated_count < MaxObs
    /\ \E f \in fights :
          LET k == legacy_key(event.date_str, f[1], f[2])
          IN  RowBody(k, Row(event.date_str, f[1], f[2], f[3]))
    /\ prev_store' = key_to_row
    /\ UNCHANGED <<pc, csv_rows, max_date, cfg, event, enrichVars, mergeVars, pureVars>>

UpsertRow == UpsertFrom(ObsFights)

\* the table row with the empty name
UpsertUnnamedRow == UpsertFrom(ObsUnnamed)

\* the end of the event's rows: total_new += new_count, total_updated += updated_count
EndEvent ==
    /\ pc = "rows"
    /\ counts' = [counts EXCEPT !.total_new = @ + counts.new_count,
                                !.total_updated = @ + counts.updated_count]
    /\ pc' = "events"
    /\ UNCHANGED <<csv_rows, key_to_row, prev_store, max_date, cfg, event, last_obs,
                   enrichVars, mergeVars, pureVars>>

\* the list of events is exhausted: final_rows = list(key_to_row.values())
EndScrape ==
    /\ pc = "events"
    /\ final_rows' = Values(key_to_row)
    /\ rows_in' = Values(key_to_row)
    /\ pc' = "kb"
    /\ UNCHANGED <<storeVars, kb, today, mergeVars, pureVars>>

\* the rows of the file, as csv.reader gives them
CsvRows ==
    { Row(<<"August", " ", "23", ",", " ", "2025">>, NameAl, NameBo, Win),
      Row(<<"2025", "-", "08", "-", "23">>, NameBo, NameAl, <<>>),
      Row(Day20, NameAl, NameBo, Loss),
      Row(NoDay, NameBo, NameAl, Draw) }

\* a row of the file whose fighter_2 is empty
CsvRowOneName == Row(<<"2025", "-", "08", "-", "23">>, NameBo, <<>>, Win)

\* files of no, one and two rows
CsvFiles ==
    {<<>>} \cup { <<r>> : r \in CsvRows } \cup { <<r, q>> : r \in CsvRows, q \in CsvRows }

\* UPDATE_EXISTING and BACKFILL_ALL, in each of their settings
Configs == [update : BOOLEAN, backfill : BOOLEAN]

Init ==
    /\ pc = "load"
    /\ csv_rows \in CsvFiles
    /\ key_to_row = <<>>
    /\ prev_store = <<>>
    /\ max_date = NoDate
    /\ cfg \in Configs
    /\ event = NoEvent
    /\ last_obs = NoObs
    /\ counts = ZeroCounts
    /\ final_rows = <<>>
    /\ rows_in = <<>>
    /\ kb = EmptyKb
    /\ today = NoDate
    /\ IdleMerge /\ IdleKey /\ IdleSelect /\ IdleFetch

Next ==
    \/ LoadRow
    \/ LoadDone
    \/ NextEvent
    \/ UpsertRow
    \/ EndEvent
    \/ EndScrape
    \/ BuildFighterKb
    \/ BackfillBornGym
    \/ ComputeCounters
    \/ ApplyActiveFlags

Spec == Init /\ [][Next]_vars

\* the load and the scrape alone, over files and pages that may leave a
\* fighter's name empty
StoreFiles == CsvFiles \cup {<<CsvRowOneName>>}

InitStore ==
    /\ pc = "load"
    /\ csv_rows \in StoreFiles
    /\ key_to_row = <<>>
    /\ prev_store = <<>>
    /\ max_date = NoDate
    /\ cfg \in Configs
    /\ event = NoEvent
    /\ last_obs = NoObs
    /\ counts = ZeroCounts
    /\ final_rows = <<>>
    /\ rows_in = <<>>
    /\ kb = EmptyKb
    /\ today = NoDate
    /\ IdleMerge /\ IdleKey /\ IdleSelect /\ IdleFetch

NextStore ==
    \/ LoadRow
    \/ LoadDone
    \/ NextEvent
    \/ UpsertRow
    \/ UpsertUnnamedRow
    \/ EndEvent
    \/ EndScrape

SpecStore == InitStore /\ [][NextStore]_vars

\* the store is in use: the file is being loaded or the events are being scraped
Storing == pc \in {"load", "events", "rows"}

\* rows i and j record the same pairing on the same calendar day
SameFightAt(dates, names, i, j) ==
    /\ dates[i] # NoDate
    /\ dates[i] = dates[j]
    /\ {names[i].f1, names[i].f2} = {names[j].f1, names[j].f2}

\* rows 1..n are the rows of the store and row n + 1 is the row that the last
\* store step handled: no two stored rows are the same fight, and a stored row
\* that is the same fight as the handled one has its key
OneRecordPerFight(dates, names, n) ==
    /\ \A i, j \in 1..n : SameFightAt(dates, names, i, j) => i = j
    /\ \A i \in 1..n :
          SameFightAt(dates, names, i, n + 1) => key_to_row[i].k = last_obs.k

(* C5: observations of the same pairing whose date texts are written in       *)
(* different accepted formats but denote the same day get the same merge key: *)
(* a loaded or observed row has the key of every stored record of the same    *)
(* fight, and the store holds one record for them, not two.                   *)
C5_SameDayOneRecord ==
    Storing =>
        LET dates == RowDates(Values(key_to_row) \o <<last_obs.row>>)
            names == RowNames(Values(key_to_row) \o <<last_obs.row>>)
        IN  OneRecordPerFight(dates, names, Len(key_to_row))

\* the file held the fight dated 'August 23, 2025'; the fight observed with the
\* date '2025-08-23' and the names in the other order was merged into it
C5_Witness ==
    /\ pc = "rows"
    /\ Len(prev_store) = 1
    /\ prev_store[1].row = Row(<<"August", " ", "23", ",", " ", "2025">>, NameAl, NameBo, Win)
    /\ last_obs.op = "upsert"
    /\ last_obs.row = Row(<<"2025", "-", "08", "-", "23">>, NameBo, NameAl, <<>>)
    /\ Len(key_to_row) = 1
    /\ key_to_row[1].row = Row(<<"2025", "-", "08", "-", "23">>, NameBo, NameAl, Win)
    /\ counts.updated_count = 1

(* C6 as stated: over the load of the file and every sequence of upserts, a   *)
(* record stored under a key is afterwards only changed by merge_rows(stored, *)
(* observed), never replaced by another row (a later row of the file with the *)
(* same key included), and no key is removed from the store.                  *)
C6_OnlyMergedNeverReplaced ==
    Storing =>
        \A i \in 1..Len(prev_store) :
            /\ i <= Len(key_to_row)
            /\ key_to_row[i].k = prev_store[i].k
            /\ \/ key_to_row[i].row = prev_store[i].row
               \/ /\ last_obs.op \in {"load", "upsert"}
                  /\ last_obs.k = prev_store[i].k
                  /\ key_to_row[i].row = merge_rows(prev_store[i].row, last_obs.row)

\* the step handles one table row of an event, with UPDATE_EXISTING as given
RowHandled(update) == pc = "rows" /\ pc' = "rows" /\ cfg.update = update

\* the step leaves every record stored under a key other than k as and where it was
OtherKeysKept(k) ==
    \A i \in 1..Len(key_to_row) :
        key_to_row[i].k # k => (i <= Len(key_to_row') /\ key_to_row'[i] = key_to_row[i])

\* the step inserts the row obs under the new key k and counts it as new
Inserted(k, obs) ==
    /\ key_to_row' = Append(key_to_row, [k |-> k, row |-> obs])
    /\ counts' = [counts EXCEPT !.new_count = @ + 1]

\* the step stores merge_rows(stored, obs) under the known key k and counts it
\* as updated exactly when it differs from what was stored
Merged(k, obs) ==
    /\ Len(key_to_row') = Len(key_to_row)
    /\ HasKey(key_to_row', k)
    /\ RowOf(key_to_row', k) = merge_rows(RowOf(key_to_row, k), obs)
    /\ counts' = [counts EXCEPT !.updated_count =
                     IF RowOf(key_to_row', k) # RowOf(key_to_row, k) THEN @ + 1 ELSE @]

(* C12: with refresh-existing on, an observed record with merge key k is      *)
(* inserted and counted as new when k is not in the store; when k is in the   *)
(* store the stored record becomes merge(stored, observed) and 'updated'      *)
(* grows by one exactly when that differs from the stored record; no record   *)
(* under another key changes.                                                 *)
C12_UpsertByKey ==
    [][RowHandled(TRUE) =>
          /\ last_obs'.op = "upsert"
          /\ IF HasKey(key_to_row, last_obs'.k)
             THEN Merged(last_obs'.k, last_obs'.row)
             ELSE Inserted(last_obs'.k, last_obs'.row)
          /\ OtherKeysKept(last_obs'.k)]_vars

\* the store held two fights; the observation of the first one, with the sides
\* exchanged and no result, was merged into it and counted as updated, and the
\* second record is as it was
C12_Witness ==
    /\ pc = "rows"
    /\ cfg.update
    /\ last_obs.op = "upsert"
    /\ last_obs.row = Row(<<"2025", "-", "08", "-", "23">>, NameBo, NameAl, <<>>)
    /\ Len(prev_store) = 2
    /\ prev_store[1].k = last_obs.k
    /\ Len(key_to_row) = 2
    /\ key_to_row[1].row = merge_rows(prev_store[1].row, last_obs.row)
    /\ key_to_row[1].row # prev_store[1].row
    /\ key_to_row[2] = prev_store[2]
    /\ counts.updated_count = 1
    /\ counts.new_count = 0

(* C18: with refresh-existing off, an observation whose merge key is in the   *)
(* store is skipped: the store is left exactly as it was and neither counter  *)
(* changes; an observation adds a record only under a key that is not in the  *)
(* store.                                                                     *)
C18_SkipWhenRefreshOff ==
    [][RowHandled(FALSE) =>
          IF HasKey(key_to_row, last_obs'.k)
          THEN last_obs'.op = "skip" /\ key_to_row' = key_to_row /\ counts' = counts
          ELSE Inserted(last_obs'.k, last_obs'.row)]_vars

\* with the shipped settings and an empty file, the first row of the event was
\* inserted and the second, the same fight with the sides exchanged, was skipped
C18_Witness ==
    /\ pc = "rows"
    /\ ~cfg.update /\ ~cfg.backfill
    /\ last_obs.op = "skip"
    /\ Len(key_to_row) = 1
    /\ key_to_row = prev_store
    /\ key_to_row[1].k = last_obs.k
    /\ key_to_row[1].row = Row(<<"2025", "-", "08", "-", "23">>, NameAl, NameBo, Win)
    /\ counts.new_count = 1
    /\ counts.updated_count = 0

\* rows i and j name the same (normalised, unordered) pairing
SamePairing(names, i, j) ==
    {names[i].f1, names[i].f2} = {names[j].f1, names[j].f2}

\* rows 1..n are the rows of the store and row n + 1 is the row that the last
\* store step loaded or upserted, if `handled`: the key of an undated row has
\* an empty date component; undated rows of one pairing share one key and one
\* stored record; a dated and an undated row never share a key
UndatedCollapse(dates, names, n, handled) ==
    /\ \A i \in 1..n : dates[i] = NoDate <=> Head(key_to_row[i].k) = "|"
    /\ \A i, j \in 1..n :
          (dates[i] = NoDate /\ dates[j] = NoDate /\ SamePairing(names, i, j)) => i = j
    /\ handled =>
          \A i \in 1..n :
              /\ (dates[i] = NoDate /\ dates[n + 1] = NoDate /\ SamePairing(names, i, n + 1))
                    => key_to_row[i].k = last_obs.k
              /\ (dates[i] = NoDate) # (dates[n + 1] = NoDate)
                    => key_to_row[i].k # last_obs.k

(* C17: an event date that does not parse is no error: it gives an empty date *)
(* component in the merge key, so two observations of the same (normalised,   *)
(* unordered) pairing whose dates both fail to parse have one merge key and   *)
(* are one stored record, and an undated observation never has the key of a   *)
(* dated one.                                                                 *)
C17_UndatedShareOneKey ==
    Storing =>
        LET dates == RowDates(Values(key_to_row) \o <<last_obs.row>>)
            names == RowNames(Values(key_to_row) \o <<last_obs.row>>)
        IN  UndatedCollapse(dates, names, Len(key_to_row),
                            last_obs.op \in {"load", "upsert"})

\* the file held Bo against Al dated 'TBD'; Al against Bo, observed at an event
\* dated 'Unknown', was merged into that record (which keeps 'TBD', since the
\* incoming 'Unknown' counts as blank)
C17_Witness ==
    /\ pc = "rows"
    /\ Len(prev_store) = 1
    /\ prev_store[1].row = Row(NoDay, NameBo, NameAl, Draw)
    /\ last_obs.op = "upsert"
    /\ last_obs.row = Row(<<"U", "n", "k", "n", "o", "w", "n">>, NameAl, NameBo, Win)
    /\ Len(key_to_row) = 1
    /\ key_to_row[1].k = <<"|", "a", "l", "|", "b", "o">>
    /\ key_to_row[1].row = Row(NoDay, NameAl, NameBo, Win)

\* the fighter that the row says has won, <<>> if it says of none
WinnerOf(row) ==
    LET v   == Get(row, "result", <<>>)
        res == Lower(Strip(IF v = None THEN <<>> ELSE v))
    IN  IF StartsWith(res, Win) THEN norm_name(Get(row, "fighter_1", <<>>))
        ELSE IF StartsWith(res, Loss) THEN norm_name(Get(row, "fighter_2", <<>>))
        ELSE <<>>

\* the observation names the two fighters of the stored row in the other order
SidesSwapped(stored, observed) ==
    /\ norm_name(Get(stored, "fighter_1", <<>>)) = norm_name(Get(observed, "fighter_2", <<>>))
    /\ norm_name(Get(stored, "fighter_2", <<>>)) = norm_name(Get(observed, "fighter_1", <<>>))
    /\ norm_name(Get(stored, "fighter_1", <<>>)) # norm_name(Get(stored, "fighter_2", <<>>))

\* the merged record names as winner nobody but the winner of the stored
\* record or of the observation
ResultAligned(stored, observed, merged) ==
    WinnerOf(merged) # <<>> => WinnerOf(merged) \in {WinnerOf(stored), WinnerOf(observed)}

(* C20 as stated: when an observation has the merge key of a stored record    *)
(* but names the two competitors in the opposite side order, the side-A       *)
(* relative result of the merged record describes the competitor named on     *)
(* side A of the merged record, also when incoming fields are blank.          *)
C20_SidesAlignedAfterSwappedMerge ==
    (Storing /\ last_obs.op = "upsert" /\ HasKey(prev_store, last_obs.k)
             /\ SidesSwapped(RowOf(prev_store, last_obs.k), last_obs.row))
        => ResultAligned(RowOf(prev_store, last_obs.k), last_obs.row,
                         RowOf(key_to_row, last_obs.k))


\* the merge key recomputed from the fields of a row
OwnKey(row) ==
    legacy_key(Get(row, "event_date", <<>>),
               Get(row, "fighter_1", <<>>),
               Get(row, "fighter_2", <<>>))

\* keys[i] is the recomputed key of the i-th stored row: it is the key the row
\* is stored under, and no other stored row has it
StoredUnderOwnKeys(keys) ==
    /\ \A i \in 1..Len(key_to_row) : keys[i] = key_to_row[i].k
    /\ \A i, j \in 1..Len(key_to_row) : keys[i] = keys[j] => i = j

(* C21 as stated: after the load and after any sequence of upserts, every     *)
(* record of the store, when its merge key is recomputed from its own         *)
(* event_date, fighter_1 and fighter_2, yields exactly the key it is stored   *)
(* under; hence no two stored records denote the same pairing and date.       *)
C21_StoredUnderOwnKey ==
    Storing =>
        LET keys == [i \in 1..Len(key_to_row) |-> OwnKey(key_to_row[i].row)]
        IN  StoredUnderOwnKeys(keys)

====
